---------------------------- MODULE Spec2Model ----------------------------
(***************************************************************************)
(* A model of the liveback backtesting core: the Portfolio ledger          *)
(* (src/src/portfolio.py), the RiskManager (src/src/risk_manager.py), the  *)
(* simulated broker BrokerSim (src/src/execution/execution_client.py),     *)
(* the EventBus (src/src/event_bus.py), the Strategy base class            *)
(* (src/src/strategy/strategy.py) and the BacktestEngine control loop      *)
(* (src/src/engine.py).                                                    *)
(*                                                                         *)
(* Money amounts that the code computes with a division (average prices,   *)
(* realized and unrealized PnL, equity) are exact rationals <<num, den>>;  *)
(* quantities, prices, commissions and cash are integers, which the        *)
(* code's floats represent exactly.                                        *)
(***************************************************************************)
EXTENDS Integers, Sequences, FiniteSets, TLC

(***************************************************************************)
(* Bounds and input sets.                                                  *)
(***************************************************************************)
\* Number of Portfolio calls in a ledger behaviour.
MaxOps == 3

\* Number of price observations the source yields in an engine run.
MaxEvents == 2

\* Number of orders a strategy emits in one step.
MaxOrders == 2

\* Largest timestamp of a price observation / wall-clock reading.
MaxTime == 2

Symbols == {"AAPL", "MSFT"}

Quantities == {1, 2}

Prices == {10, 12}

Commissions == {0, 1}

\* Python's None where the code expects a number: every optional number of the
\* model (a price, a limit, a timestamp) is non-negative when present.
None == -1

\* Python's None where the code expects an object.
Nothing == [none |-> TRUE]

BUY == "BUY"

SELL == "SELL"

\* OrderType.
MARKET == "MARKET"

LIMIT == "LIMIT"

STOP == "STOP"

(***************************************************************************)
(* Exact rational arithmetic standing for the code's float arithmetic.     *)
(***************************************************************************)
Abs(x) == IF x < 0 THEN -x ELSE x

Min(a, b) == IF a <= b THEN a ELSE b

RECURSIVE Gcd(_, _)
Gcd(a, b) == IF b = 0 THEN a ELSE Gcd(b, a % b)

\* The canonical form of n/d (d # 0): positive denominator, lowest terms.
RNorm(n, d) ==
    LET s == IF d < 0 THEN -1 ELSE 1
        g == Gcd(Abs(n), Abs(d))
    IN  <<(s * n) \div g, (s * d) \div g>>

R(n) == <<n, 1>>

\* Python's None where the code expects a float that the model keeps as a rational.
RNone == <<0, 0>>

RAdd(x, y) == RNorm(x[1] * y[2] + y[1] * x[2], x[2] * y[2])

RSub(x, y) == RNorm(x[1] * y[2] - y[1] * x[2], x[2] * y[2])

RMul(x, y) == RNorm(x[1] * y[1], x[2] * y[2])

RDiv(x, y) == RNorm(x[1] * y[2], x[2] * y[1])

RAbs(x) == <<Abs(x[1]), x[2]>>

RLess(x, y) == x[1] * y[2] < y[1] * x[2]

RECURSIVE RSum(_)
RSum(s) == IF s = <<>> THEN R(0) ELSE RAdd(s[1], RSum(Tail(s)))

(***************************************************************************)
(* Value objects (src/src/types.py).                                       *)
(***************************************************************************)
\* Position(symbol): quantity, avg_price and unrealized_pnl default to 0.
Position(symbol) ==
    [symbol |-> symbol, quantity |-> 0, avg_price |-> R(0), unrealized_pnl |-> R(0)]

Fill(order_id, timestamp, symbol, side, quantity, price, slippage, commission) ==
    [order_id |-> order_id, timestamp |-> timestamp, symbol |-> symbol,
     side |-> side, quantity |-> quantity, price |-> price,
     slippage |-> slippage, commission |-> commission]

Trade(timestamp, symbol, side, quantity, price, slippage, commission, pnl) ==
    [timestamp |-> timestamp, symbol |-> symbol, side |-> side,
     quantity |-> quantity, price |-> price, slippage |-> slippage,
     commission |-> commission, pnl |-> pnl]

Order(symbol, side, quantity, order_type, limit_price, stop_price) ==
    [symbol |-> symbol, side |-> side, quantity |-> quantity,
     order_type |-> order_type, limit_price |-> limit_price,
     stop_price |-> stop_price]

(***************************************************************************)
(* Portfolio (src/src/portfolio.py).  A Portfolio object is a record; the  *)
(* positions dict is the function positions restricted to the symbols of   *)
(* pos_keys, which lists the dict's keys in insertion order.               *)
(***************************************************************************)
\* Portfolio.__init__: the portfolio constructs an EventBus of its own.
NewPortfolio(initial_cash) ==
    [initial_cash |-> initial_cash,
     cash |-> initial_cash,
     positions |-> [s \in Symbols |-> Position(s)],
     pos_keys |-> <<>>,
     equity_curve |-> <<>>,
     trades |-> <<>>,
     event_bus |-> "portfolio_bus"]

Range(seq) == {seq[i] : i \in 1..Len(seq)}

\* A get_position that stores a fresh zero Position whether or not the
\* symbol has one.
EnsurePositionOverwrites(p, symbol) ==
    [p EXCEPT !.pos_keys = IF symbol \in Range(@) THEN @ ELSE Append(@, symbol),
              !.positions[symbol] = Position(symbol)]

\* Portfolio.get_position: the lazily created zero Position is stored.
EnsurePosition(p, symbol) ==
    IF symbol \in Range(p.pos_keys)
    THEN p
    ELSE [p EXCEPT !.pos_keys = Append(@, symbol),
                   !.positions[symbol] = Position(symbol)]

\* Portfolio.get_total_equity.
TotalEquity(p) ==
    LET value(s) == RAdd(RMul(R(p.positions[s].quantity), p.positions[s].avg_price),
                         p.positions[s].unrealized_pnl)
    IN  RAdd(R(p.cash), RSum([i \in 1..Len(p.pos_keys) |-> value(p.pos_keys[i])]))

\* Portfolio.record_equity.
RecordEquity(p, timestamp) ==
    [p EXCEPT !.equity_curve = Append(@, <<timestamp, TotalEquity(p)>>)]

\* Portfolio.update_unrealized_pnl for a one-symbol price dictionary
\* {symbol: price}; the positions of other symbols are not in current_prices.
UpdateUnrealizedPnl(p, symbol, price) ==
    LET pos == p.positions[symbol]
    IN  IF symbol \in Range(p.pos_keys) /\ pos.quantity # 0
        THEN IF pos.quantity > 0
             THEN [p EXCEPT !.positions[symbol].unrealized_pnl =
                      RMul(RSub(R(price), pos.avg_price), R(pos.quantity))]
             ELSE [p EXCEPT !.positions[symbol].unrealized_pnl =
                      RMul(RSub(pos.avg_price, R(price)), R(Abs(pos.quantity)))]
        ELSE p

\* A slip of close_quantity: the whole fill counted as closing the position.
CloseQuantityWholeFill(position_quantity, fill_quantity) == fill_quantity

\* close_quantity = min(abs(position.quantity), fill.quantity).
CloseQuantity(position_quantity, fill_quantity) ==
    Min(Abs(position_quantity), fill_quantity)

\* A BUY branch that leaves the portfolio as it is when the fill costs more
\* than the cash at hand.
ApplyBuyWithinCash(p, fill) ==
    IF fill.quantity * fill.price + fill.commission > p.cash THEN p
    ELSE LET pos  == p.positions[fill.symbol]
             cost == fill.quantity * fill.price + fill.commission
             total_cost == RAdd(RMul(pos.avg_price, R(pos.quantity)), R(cost))
             quantity   == pos.quantity + fill.quantity
         IN  [p EXCEPT !.positions[fill.symbol].quantity = quantity,
                       !.positions[fill.symbol].avg_price =
                           IF quantity > 0 THEN RDiv(total_cost, R(quantity)) ELSE R(0),
                       !.cash = @ - cost]

\* A BUY branch whose weighted average leaves the commission out.
ApplyBuyAverageWithoutCommission(p, fill) ==
    LET pos  == p.positions[fill.symbol]
        cost == fill.quantity * fill.price + fill.commission
    IN  IF pos.quantity < 0
        THEN \* closing short position
             LET close_quantity == CloseQuantity(pos.quantity, fill.quantity)
                 pnl == RSub(RMul(RSub(pos.avg_price, R(fill.price)), R(close_quantity)),
                             R(fill.commission))
                 p1  == [p EXCEPT
                           !.positions[fill.symbol].quantity = @ + close_quantity,
                           !.cash = @ + fill.quantity * fill.price - cost,
                           !.trades = Append(@, Trade(fill.timestamp, fill.symbol,
                                          fill.side, close_quantity, fill.price,
                                          fill.slippage, fill.commission, pnl))]
                 remaining == fill.quantity - close_quantity
             IN  IF fill.quantity > close_quantity
                 THEN [p1 EXCEPT !.positions[fill.symbol].avg_price = R(fill.price),
                                 !.positions[fill.symbol].quantity = remaining,
                                 !.cash = @ - remaining * fill.price]
                 ELSE p1
        ELSE \* adding to long position
             LET total_cost == RAdd(RMul(pos.avg_price, R(pos.quantity)),
                                    R(fill.quantity * fill.price))
                 quantity   == pos.quantity + fill.quantity
             IN  [p EXCEPT !.positions[fill.symbol].quantity = quantity,
                           !.positions[fill.symbol].avg_price =
                               IF quantity > 0 THEN RDiv(total_cost, R(quantity)) ELSE R(0),
                           !.cash = @ - cost]

\* The BUY branch of Portfolio.apply_fill (portfolio.py lines 79-117).
ApplyBuy(p, fill) ==
    LET pos  == p.positions[fill.symbol]
        cost == fill.quantity * fill.price + fill.commission
    IN  IF pos.quantity < 0
        THEN \* closing short position
             LET close_quantity == CloseQuantity(pos.quantity, fill.quantity)
                 pnl == RSub(RMul(RSub(pos.avg_price, R(fill.price)), R(close_quantity)),
                             R(fill.commission))
                 p1  == [p EXCEPT
                           !.positions[fill.symbol].quantity = @ + close_quantity,
                           !.cash = @ + fill.quantity * fill.price - cost,
                           !.trades = Append(@, Trade(fill.timestamp, fill.symbol,
                                          fill.side, close_quantity, fill.price,
                                          fill.slippage, fill.commission, pnl))]
                 remaining == fill.quantity - close_quantity
             IN  IF fill.quantity > close_quantity
                 THEN [p1 EXCEPT !.positions[fill.symbol].avg_price = R(fill.price),
                                 !.positions[fill.symbol].quantity = remaining,
                                 !.cash = @ - remaining * fill.price]
                 ELSE p1
        ELSE \* adding to long position
             LET total_cost == RAdd(RMul(pos.avg_price, R(pos.quantity)), R(cost))
                 quantity   == pos.quantity + fill.quantity
             IN  [p EXCEPT !.positions[fill.symbol].quantity = quantity,
                           !.positions[fill.symbol].avg_price =
                               IF quantity > 0 THEN RDiv(total_cost, R(quantity)) ELSE R(0),
                           !.cash = @ - cost]

\* The SELL branch of Portfolio.apply_fill (portfolio.py lines 118-160).
ApplySell(p, fill) ==
    LET pos == p.positions[fill.symbol]
    IN  IF pos.quantity > 0
        THEN \* closing long position
             LET close_quantity == CloseQuantity(pos.quantity, fill.quantity)
                 pnl == RSub(RMul(RSub(R(fill.price), pos.avg_price), R(close_quantity)),
                             R(fill.commission))
                 p1  == [p EXCEPT
                           !.positions[fill.symbol].quantity = @ - close_quantity,
                           !.cash = @ + close_quantity * fill.price - fill.commission,
                           !.trades = Append(@, Trade(fill.timestamp, fill.symbol,
                                          fill.side, close_quantity, fill.price,
                                          fill.slippage, fill.commission, pnl))]
                 remaining == fill.quantity - close_quantity
             IN  IF fill.quantity > close_quantity
                 THEN [p1 EXCEPT !.positions[fill.symbol].avg_price = R(fill.price),
                                 !.positions[fill.symbol].quantity = -remaining,
                                 !.cash = @ + remaining * fill.price - fill.commission]
                 ELSE p1
        ELSE \* adding to short position
             LET total_proceeds == RAdd(RAbs(RMul(pos.avg_price, R(pos.quantity))),
                                        R(fill.quantity * fill.price))
                 quantity == pos.quantity - fill.quantity
             IN  [p EXCEPT !.positions[fill.symbol].quantity = quantity,
                           !.positions[fill.symbol].avg_price =
                               IF quantity < 0
                               THEN RAbs(RDiv(total_proceeds, R(quantity)))
                               ELSE R(0),
                           !.cash = @ + fill.quantity * fill.price - fill.commission]

\* An apply_fill that also records an equity sample, stamped with the fill's time.
ApplyFillRecordsEquity(p, fill) ==
    LET p0 == EnsurePosition(p, fill.symbol)
    IN  RecordEquity(IF fill.side = BUY THEN ApplyBuy(p0, fill) ELSE ApplySell(p0, fill),
                     fill.timestamp)

\* Portfolio.apply_fill, up to the publication of its EquityUpdateEvent.
ApplyFill(p, fill) ==
    LET p0 == EnsurePosition(p, fill.symbol)
    IN  IF fill.side = BUY THEN ApplyBuy(p0, fill) ELSE ApplySell(p0, fill)


(***************************************************************************)
(* EventBus (src/src/event_bus.py), domain-event routing.  A bus is its    *)
(* domain_subscribers table: for each event type, the callbacks in         *)
(* subscription order.  Callbacks are named by the bound method they are.  *)
(***************************************************************************)
\* The domain-event classes the engine, portfolio and risk manager import.
DomainEventTypes == {"PriceUpdateEvent", "FillEvent", "EquityUpdateEvent"}

PriceUpdateEvent(symbol, price, timestamp) ==
    [type |-> "PriceUpdateEvent", symbol |-> symbol, price |-> price,
     timestamp |-> timestamp]

FillEvent(fill, timestamp) ==
    [type |-> "FillEvent", fill |-> fill, timestamp |-> timestamp]

EquityUpdateEvent(equity, timestamp) ==
    [type |-> "EquityUpdateEvent", equity |-> equity, timestamp |-> timestamp]

\* The classes subscribe accepts as domain-event keys: DomainEvent and its
\* subclasses.
DomainEventKeys == DomainEventTypes \cup {"DomainEvent"}

\* Keys of the legacy, string-keyed table: "None" stands for the key None.
LegacyKeys == {"None", "TICK"}

\* EventBus.__init__: subscribers is the legacy dict (keys lists its keys in
\* insertion order), domain_subscribers the type-keyed dict, in which an
\* absent key and an empty list behave alike.
EventBus ==
    [subscribers |-> [key \in LegacyKeys |-> <<>>],
     keys |-> <<>>,
     domain_subscribers |-> [t \in DomainEventKeys |-> <<>>],
     event_queue |-> <<>>]

\* A subscribe that puts the callback in front of the earlier ones.
SubscribeInFront(bus, event_type, callback) ==
    IF event_type \in DomainEventKeys
    THEN [bus EXCEPT !.domain_subscribers[event_type] = <<callback>> \o @]
    ELSE [bus EXCEPT !.subscribers[event_type] = <<callback>> \o @,
                     !.keys = IF event_type \in Range(@) THEN @
                              ELSE Append(@, event_type)]

\* EventBus.subscribe: a DomainEvent subclass goes to the type-keyed table,
\* any other key to the legacy table.
Subscribe(bus, event_type, callback) ==
    IF event_type \in DomainEventKeys
    THEN [bus EXCEPT !.domain_subscribers[event_type] = Append(@, callback)]
    ELSE [bus EXCEPT !.subscribers[event_type] = Append(@, callback),
                     !.keys = IF event_type \in Range(@) THEN @
                              ELSE Append(@, event_type)]

\* isinstance(event, DomainEvent).
IsDomainEvent(event) == event.type \in DomainEventKeys

\* The callbacks EventBus.publish invokes for a domain event, in order.
Callbacks(bus, event) == bus.domain_subscribers[event.type]

\* The callbacks of the first legacy key only.
LegacyCallbacksOfFirstKey(bus) ==
    IF bus.keys = <<>> THEN <<>> ELSE bus.subscribers[bus.keys[1]]

\* The callbacks EventBus.publish invokes for a market-data event: those of
\* every legacy key, in the order of subscribers.values().
RECURSIVE CallbacksOfKeys(_, _)
CallbacksOfKeys(bus, keys) ==
    IF keys = <<>> THEN <<>>
    ELSE bus.subscribers[Head(keys)] \o CallbacksOfKeys(bus, Tail(keys))

LegacyCallbacks(bus) == CallbacksOfKeys(bus, bus.keys)

\* A publish that appends every event to the queue.
EnqueueAlways(bus, event) == [bus EXCEPT !.event_queue = Append(@, event)]

\* EventBus.publish before it invokes callbacks: only a market-data event is
\* appended to event_queue.
Enqueue(bus, event) ==
    IF IsDomainEvent(event) THEN bus
    ELSE [bus EXCEPT !.event_queue = Append(@, event)]

\* The callbacks EventBus.publish(event) invokes, in order.
Targets(bus, event) ==
    IF IsDomainEvent(event) THEN Callbacks(bus, event) ELSE LegacyCallbacks(bus)

(***************************************************************************)
(* RiskManager (src/src/risk_manager.py).                                  *)
(***************************************************************************)
RiskManager(max_position_size, max_portfolio_exposure, max_drawdown) ==
    [max_position_size |-> max_position_size,
     max_portfolio_exposure |-> max_portfolio_exposure,
     max_drawdown |-> max_drawdown,
     peak_equity |-> RNone]

\* An update_peak_equity that stores the equity it is given, whatever the peak.
UpdatePeakEquityOverwrites(rk, equity) == [rk EXCEPT !.peak_equity = equity]

\* RiskManager.update_peak_equity.
UpdatePeakEquity(rk, equity) ==
    IF rk.peak_equity = RNone \/ RLess(rk.peak_equity, equity)
    THEN [rk EXCEPT !.peak_equity = equity]
    ELSE rk

\* RiskManager.on_equity_update.
OnEquityUpdate(rk, event) == UpdatePeakEquity(rk, event.equity)

\* current_exposure of RiskManager.validate_order.
CurrentExposure(p) ==
    LET term(s) == IF p.positions[s].quantity # 0
                   THEN RMul(R(Abs(p.positions[s].quantity)), p.positions[s].avg_price)
                   ELSE R(0)
    IN  RSum([i \in 1..Len(p.pos_keys) |-> term(p.pos_keys[i])])

\* A validate_order whose position cap rejects a projected magnitude equal
\* to the cap.
ValidateOrderCapExclusive(rk, p, order) ==
    LET p1 == IF rk.max_position_size # None THEN EnsurePosition(p, order.symbol) ELSE p
        new_quantity == IF order.side = BUY
                        THEN p1.positions[order.symbol].quantity + order.quantity
                        ELSE p1.positions[order.symbol].quantity - order.quantity
        size_bad == rk.max_position_size # None
                    /\ Abs(new_quantity) >= rk.max_position_size
        limit == IF order.limit_price = None THEN 0 ELSE order.limit_price
        exposure_bad == rk.max_portfolio_exposure # None
                        /\ RLess(R(rk.max_portfolio_exposure),
                                 RAdd(CurrentExposure(p1), R(order.quantity * limit)))
        current_equity == TotalEquity(p1)
        rk1 == IF rk.peak_equity = RNone \/ RLess(rk.peak_equity, current_equity)
               THEN [rk EXCEPT !.peak_equity = current_equity]
               ELSE rk
    IN  IF size_bad \/ exposure_bad
        THEN [result |-> "reject", risk |-> rk, portfolio |-> p1]
        ELSE IF rk.max_drawdown = RNone
        THEN [result |-> "accept", risk |-> rk, portfolio |-> p1]
        ELSE IF rk1.peak_equity = R(0)
        THEN [result |-> "raise", risk |-> rk1, portfolio |-> p1]
        ELSE IF RLess(rk.max_drawdown,
                      RDiv(RSub(rk1.peak_equity, current_equity), rk1.peak_equity))
        THEN [result |-> "reject", risk |-> rk1, portfolio |-> p1]
        ELSE [result |-> "accept", risk |-> rk1, portfolio |-> p1]

\* RiskManager.validate_order.  The result is "accept" (True), "reject" (False)
\* or "raise" (the drawdown division by a zero peak_equity raises
\* ZeroDivisionError); the call may store a zero Position in the portfolio and
\* may raise peak_equity.
ValidateOrder(rk, p, order) ==
    LET p1 == IF rk.max_position_size # None THEN EnsurePosition(p, order.symbol) ELSE p
        new_quantity == IF order.side = BUY
                        THEN p1.positions[order.symbol].quantity + order.quantity
                        ELSE p1.positions[order.symbol].quantity - order.quantity
        size_bad == rk.max_position_size # None
                    /\ Abs(new_quantity) > rk.max_position_size
        limit == IF order.limit_price = None THEN 0 ELSE order.limit_price
        exposure_bad == rk.max_portfolio_exposure # None
                        /\ RLess(R(rk.max_portfolio_exposure),
                                 RAdd(CurrentExposure(p1), R(order.quantity * limit)))
        current_equity == TotalEquity(p1)
        rk1 == IF rk.peak_equity = RNone \/ RLess(rk.peak_equity, current_equity)
               THEN [rk EXCEPT !.peak_equity = current_equity]
               ELSE rk
    IN  IF size_bad \/ exposure_bad
        THEN [result |-> "reject", risk |-> rk, portfolio |-> p1]
        ELSE IF rk.max_drawdown = RNone
        THEN [result |-> "accept", risk |-> rk, portfolio |-> p1]
        ELSE IF rk1.peak_equity = R(0)
        THEN [result |-> "raise", risk |-> rk1, portfolio |-> p1]
        ELSE IF RLess(rk.max_drawdown,
                      RDiv(RSub(rk1.peak_equity, current_equity), rk1.peak_equity))
        THEN [result |-> "reject", risk |-> rk1, portfolio |-> p1]
        ELSE [result |-> "accept", risk |-> rk1, portfolio |-> p1]

(***************************************************************************)
(* BrokerSim (src/src/execution/execution_client.py).                      *)
(***************************************************************************)
\* BrokerSim.__init__; slippage is the value the slippage model returns
\* (0 when no model is given).
BrokerSim(slippage) ==
    [slippage |-> slippage,
     order_id_counter |-> 0,
     last_prices |-> [s \in Symbols |-> None]]

\* A send_order that fills at the current price without caching it.
SendOrderWithoutCache(b, order, current_price, now) ==
    LET b1 == [b EXCEPT !.order_id_counter = @ + 1]
    IN  IF current_price # None
        THEN [raised |-> FALSE,
              broker |-> b1,
              fill |-> Fill(b1.order_id_counter, now, order.symbol, order.side,
                            order.quantity, current_price + b.slippage, b.slippage, 0)]
        ELSE IF b.last_prices[order.symbol] # None
        THEN [raised |-> FALSE,
              broker |-> b1,
              fill |-> Fill(b1.order_id_counter, now, order.symbol, order.side,
                            order.quantity, b.last_prices[order.symbol] + b.slippage,
                            b.slippage, 0)]
        ELSE [raised |-> TRUE, broker |-> b1, fill |-> Nothing]

\* A send_order that advances the id counter only when a current price is given.
SendOrderCounterOnPricedCalls(b, order, current_price, now) ==
    LET b1 == [b EXCEPT !.order_id_counter = @ + 1]
    IN  IF current_price # None
        THEN [raised |-> FALSE,
              broker |-> [b1 EXCEPT !.last_prices[order.symbol] = current_price],
              fill |-> Fill(b1.order_id_counter, now, order.symbol, order.side,
                            order.quantity, current_price + b.slippage, b.slippage, 0)]
        ELSE IF b.last_prices[order.symbol] # None
        THEN [raised |-> FALSE,
              broker |-> b,
              fill |-> Fill(b.order_id_counter, now, order.symbol, order.side,
                            order.quantity, b.last_prices[order.symbol] + b.slippage,
                            b.slippage, 0)]
        ELSE [raised |-> TRUE, broker |-> b, fill |-> Nothing]

\* BrokerSim.send_order at wall-clock time now: the id counter advances first;
\* without a current price and without a cached one the call raises ValueError.
SendOrder(b, order, current_price, now) ==
    LET b1 == [b EXCEPT !.order_id_counter = @ + 1]
    IN  IF current_price # None
        THEN [raised |-> FALSE,
              broker |-> [b1 EXCEPT !.last_prices[order.symbol] = current_price],
              fill |-> Fill(b1.order_id_counter, now, order.symbol, order.side,
                            order.quantity, current_price + b.slippage, b.slippage, 0)]
        ELSE IF b.last_prices[order.symbol] # None
        THEN [raised |-> FALSE,
              broker |-> b1,
              fill |-> Fill(b1.order_id_counter, now, order.symbol, order.side,
                            order.quantity, b.last_prices[order.symbol] + b.slippage,
                            b.slippage, 0)]
        ELSE [raised |-> TRUE, broker |-> b1, fill |-> Nothing]

(***************************************************************************)
(* BacktestSimulationBroker (src/src/broker.py), the matching broker.  The *)
(* positions dict is the function positions restricted to the symbols of   *)
(* pos_keys.  A MultiBar is a function from symbols to a Bar or to Nothing *)
(* (no bar for the symbol).                                                *)
(***************************************************************************)
Bar(timestamp, symbol, open, high, low, close) ==
    [timestamp |-> timestamp, symbol |-> symbol, open |-> open, high |-> high,
     low |-> low, close |-> close]

\* BacktestSimulationBroker.__init__.
BacktestSimulationBroker(initial_cash, slippage, commission) ==
    [orders |-> <<>>,
     trades |-> <<>>,
     closed_trades |-> <<>>,
     positions |-> [s \in Symbols |-> Position(s)],
     pos_keys |-> <<>>,
     cash |-> initial_cash,
     slippage |-> slippage,
     commission |-> commission,
     equity_curve |-> <<>>]

\* The order type new_order derives: a limit wins over a stop.
OrderTypeOf(limit, stop) ==
    IF limit # None THEN LIMIT ELSE IF stop # None THEN STOP ELSE MARKET

\* new_order without its assertion: a zero quantity is accepted.
NewOrderAcceptsZero(b, symbol, quantity, limit, stop) ==
    LET order == Order(symbol, IF quantity > 0 THEN BUY ELSE SELL, quantity,
                       OrderTypeOf(limit, stop), limit, stop)
    IN  [raised |-> FALSE,
         broker |-> [b EXCEPT !.orders = Append(@, order)],
         order |-> order]

\* BacktestSimulationBroker.new_order: the assertion fails on quantity 0;
\* otherwise the order, which keeps the signed quantity, is appended.
NewOrder(b, symbol, quantity, limit, stop) ==
    IF quantity = 0
    THEN [raised |-> TRUE, broker |-> b, order |-> Nothing]
    ELSE LET order == Order(symbol, IF quantity > 0 THEN BUY ELSE SELL, quantity,
                            OrderTypeOf(limit, stop), limit, stop)
         IN  [raised |-> FALSE,
              broker |-> [b EXCEPT !.orders = Append(@, order)],
              order |-> order]

Max(a, b) == IF a >= b THEN a ELSE b

\* An open price without the fallback to the close.
OpenPriceWithoutFallback(bar) == bar.open

\* open_price = bar.open if bar.open is not None else bar.close.
OpenPrice(bar) == IF bar.open # None THEN bar.open ELSE bar.close

\* The order cannot be matched this step: no bar for its symbol, or a bar
\* with neither open nor close.
NoQuote(order, current_bar) ==
    \/ current_bar[order.symbol] = Nothing
    \/ OpenPrice(current_bar[order.symbol]) = None

\* A matching whose limit conditions exclude equality.
MatchPriceStrictLimit(order, bar) ==
    LET open_price == OpenPrice(bar)
        high == IF bar.high # None THEN bar.high ELSE open_price
        low  == IF bar.low # None THEN bar.low ELSE open_price
    IN  IF order.order_type = MARKET THEN open_price
        ELSE IF order.order_type = LIMIT /\ order.limit_price # None
        THEN IF order.side = BUY /\ low < order.limit_price
             THEN Min(open_price, order.limit_price)
             ELSE IF order.side = SELL /\ high > order.limit_price
             THEN Max(open_price, order.limit_price)
             ELSE None
        ELSE IF order.order_type = STOP /\ order.stop_price # None
        THEN IF order.side = BUY /\ high >= order.stop_price
             THEN Max(open_price, order.stop_price)
             ELSE IF order.side = SELL /\ low <= order.stop_price
             THEN Min(open_price, order.stop_price)
             ELSE None
        ELSE None

\* A matching that fills a triggered stop order at its stop price.
MatchPriceStopAtTrigger(order, bar) ==
    LET open_price == OpenPrice(bar)
        high == IF bar.high # None THEN bar.high ELSE open_price
        low  == IF bar.low # None THEN bar.low ELSE open_price
    IN  IF order.order_type = MARKET THEN open_price
        ELSE IF order.order_type = LIMIT /\ order.limit_price # None
        THEN IF order.side = BUY /\ low <= order.limit_price
             THEN Min(open_price, order.limit_price)
             ELSE IF order.side = SELL /\ high >= order.limit_price
             THEN Max(open_price, order.limit_price)
             ELSE None
        ELSE IF order.order_type = STOP /\ order.stop_price # None
        THEN IF order.side = BUY /\ high >= order.stop_price
             THEN order.stop_price
             ELSE IF order.side = SELL /\ low <= order.stop_price
             THEN order.stop_price
             ELSE None
        ELSE None

\* fill_price before slippage (broker.py lines 106-121), None when the
\* order's condition is not met by the bar.
MatchPrice(order, bar) ==
    LET open_price == OpenPrice(bar)
        high == IF bar.high # None THEN bar.high ELSE open_price
        low  == IF bar.low # None THEN bar.low ELSE open_price
    IN  IF order.order_type = MARKET THEN open_price
        ELSE IF order.order_type = LIMIT /\ order.limit_price # None
        THEN IF order.side = BUY /\ low <= order.limit_price
             THEN Min(open_price, order.limit_price)
             ELSE IF order.side = SELL /\ high >= order.limit_price
             THEN Max(open_price, order.limit_price)
             ELSE None
        ELSE IF order.order_type = STOP /\ order.stop_price # None
        THEN IF order.side = BUY /\ high >= order.stop_price
             THEN Max(open_price, order.stop_price)
             ELSE IF order.side = SELL /\ low <= order.stop_price
             THEN Min(open_price, order.stop_price)
             ELSE None
        ELSE None

\* A removal that leaves the list as it is.
RemoveNothing(orders, order) == orders

\* list.remove(order): the first element equal to order is removed.
RECURSIVE Remove(_, _)
Remove(orders, order) ==
    IF orders = <<>> THEN <<>>
    ELSE IF Head(orders) = order THEN Tail(orders)
    ELSE <<Head(orders)>> \o Remove(Tail(orders), order)

\* The position bookkeeping of a BUY fill (broker.py lines 147-165); the
\* result is the position and the realized PnL before commission.
BrokerBuy(position, quantity, fill_price) ==
    IF position.quantity < 0
    THEN LET close_quantity == Min(Abs(position.quantity), quantity)
             q1 == position.quantity + close_quantity
             p1 == [position EXCEPT !.quantity = q1,
                                    !.avg_price = IF q1 = 0 THEN R(0) ELSE @]
         IN  [pnl |-> RMul(RSub(position.avg_price, R(fill_price)), R(close_quantity)),
              position |-> IF quantity > close_quantity
                           THEN [p1 EXCEPT !.avg_price = R(fill_price),
                                           !.quantity = quantity - close_quantity]
                           ELSE p1]
    ELSE LET total_cost == RAdd(RMul(position.avg_price, R(position.quantity)),
                                R(fill_price * quantity))
             q1 == position.quantity + quantity
         IN  [pnl |-> R(0),
              position |-> [position EXCEPT
                              !.quantity = q1,
                              !.avg_price = IF q1 # 0 THEN RDiv(total_cost, R(q1))
                                            ELSE R(0)]]

\* A SELL bookkeeping that moves the average price of the remainder of
\* a long position to the fill price.
BrokerSellRebases(position, quantity, fill_price) ==
    IF position.quantity > 0
    THEN LET close_quantity == Min(position.quantity, quantity)
             q1 == position.quantity - close_quantity
             p1 == [position EXCEPT !.quantity = q1,
                                    !.avg_price = IF q1 = 0 THEN R(0)
                                                  ELSE R(fill_price)]
         IN  [pnl |-> RMul(RSub(R(fill_price), position.avg_price), R(close_quantity)),
              position |-> IF quantity > close_quantity
                           THEN [p1 EXCEPT !.avg_price = R(fill_price),
                                           !.quantity = -(quantity - close_quantity)]
                           ELSE p1]
    ELSE LET total_proceeds == RAdd(RAbs(RMul(position.avg_price, R(position.quantity))),
                                    R(fill_price * quantity))
             q1 == position.quantity - quantity
         IN  [pnl |-> R(0),
              position |-> [position EXCEPT
                              !.quantity = q1,
                              !.avg_price = IF q1 < 0
                                            THEN RAbs(RDiv(total_proceeds, R(q1)))
                                            ELSE R(0)]]

\* The position bookkeeping of a SELL fill (broker.py lines 166-187).
BrokerSell(position, quantity, fill_price) ==
    IF position.quantity > 0
    THEN LET close_quantity == Min(position.quantity, quantity)
             q1 == position.quantity - close_quantity
             p1 == [position EXCEPT !.quantity = q1,
                                    !.avg_price = IF q1 = 0 THEN R(0) ELSE @]
         IN  [pnl |-> RMul(RSub(R(fill_price), position.avg_price), R(close_quantity)),
              position |-> IF quantity > close_quantity
                           THEN [p1 EXCEPT !.avg_price = R(fill_price),
                                           !.quantity = -(quantity - close_quantity)]
                           ELSE p1]
    ELSE LET total_proceeds == RAdd(RAbs(RMul(position.avg_price, R(position.quantity))),
                                    R(fill_price * quantity))
             q1 == position.quantity - quantity
         IN  [pnl |-> R(0),
              position |-> [position EXCEPT
                              !.quantity = q1,
                              !.avg_price = IF q1 < 0
                                            THEN RAbs(RDiv(total_proceeds, R(q1)))
                                            ELSE R(0)]]

\* A fill that adds the slippage to the price of sells as well.
FillOrderSlippageAdded(b, order, bar, matched_price) ==
    LET quantity == Abs(order.quantity)
        fill_price == IF b.slippage # 0
                      THEN matched_price + b.slippage
                      ELSE matched_price
        booked == IF order.side = BUY
                  THEN BrokerBuy(b.positions[order.symbol], quantity, fill_price)
                  ELSE BrokerSell(b.positions[order.symbol], quantity, fill_price)
        trade_pnl == RSub(booked.pnl, R(b.commission))
        trade == Trade(bar.timestamp, order.symbol, order.side, quantity, fill_price,
                       Abs(quantity * b.slippage), b.commission, trade_pnl)
    IN  [b EXCEPT !.pos_keys = IF order.symbol \in Range(@) THEN @
                                ELSE Append(@, order.symbol),
                  !.positions[order.symbol] = booked.position,
                  !.trades = Append(@, trade),
                  !.closed_trades = IF trade_pnl # R(0) THEN Append(@, trade) ELSE @,
                  !.orders = Remove(@, order)]

\* A fill that records a trade only when it records a closed trade.
FillOrderTradeOnlyWhenClosed(b, order, bar, matched_price) ==
    LET quantity == Abs(order.quantity)
        fill_price == IF b.slippage # 0
                      THEN IF order.side = BUY THEN matched_price + b.slippage
                           ELSE matched_price - b.slippage
                      ELSE matched_price
        booked == IF order.side = BUY
                  THEN BrokerBuy(b.positions[order.symbol], quantity, fill_price)
                  ELSE BrokerSell(b.positions[order.symbol], quantity, fill_price)
        trade_pnl == RSub(booked.pnl, R(b.commission))
        trade == Trade(bar.timestamp, order.symbol, order.side, quantity, fill_price,
                       Abs(quantity * b.slippage), b.commission, trade_pnl)
    IN  [b EXCEPT !.pos_keys = IF order.symbol \in Range(@) THEN @
                                ELSE Append(@, order.symbol),
                  !.positions[order.symbol] = booked.position,
                  !.trades = IF trade_pnl # R(0) THEN Append(@, trade) ELSE @,
                  !.closed_trades = IF trade_pnl # R(0) THEN Append(@, trade) ELSE @,
                  !.orders = Remove(@, order)]

\* A fill that records a closed trade when the realized PnL before the
\* commission is non-zero.
FillOrderClosedOnRealized(b, order, bar, matched_price) ==
    LET quantity == Abs(order.quantity)
        fill_price == IF b.slippage # 0
                      THEN IF order.side = BUY THEN matched_price + b.slippage
                           ELSE matched_price - b.slippage
                      ELSE matched_price
        booked == IF order.side = BUY
                  THEN BrokerBuy(b.positions[order.symbol], quantity, fill_price)
                  ELSE BrokerSell(b.positions[order.symbol], quantity, fill_price)
        trade_pnl == RSub(booked.pnl, R(b.commission))
        trade == Trade(bar.timestamp, order.symbol, order.side, quantity, fill_price,
                       Abs(quantity * b.slippage), b.commission, trade_pnl)
    IN  [b EXCEPT !.pos_keys = IF order.symbol \in Range(@) THEN @
                                ELSE Append(@, order.symbol),
                  !.positions[order.symbol] = booked.position,
                  !.trades = Append(@, trade),
                  !.closed_trades = IF booked.pnl # R(0) THEN Append(@, trade) ELSE @,
                  !.orders = Remove(@, order)]

\* The body of the loop of process_orders for a matched order (broker.py
\* lines 133-206): slippage, position, trade, removal of the order.
FillOrder(b, order, bar, matched_price) ==
    LET quantity == Abs(order.quantity)
        fill_price == IF b.slippage # 0
                      THEN IF order.side = BUY THEN matched_price + b.slippage
                           ELSE matched_price - b.slippage
                      ELSE matched_price
        booked == IF order.side = BUY
                  THEN BrokerBuy(b.positions[order.symbol], quantity, fill_price)
                  ELSE BrokerSell(b.positions[order.symbol], quantity, fill_price)
        trade_pnl == RSub(booked.pnl, R(b.commission))
        trade == Trade(bar.timestamp, order.symbol, order.side, quantity, fill_price,
                       Abs(quantity * b.slippage), b.commission, trade_pnl)
    IN  [b EXCEPT !.pos_keys = IF order.symbol \in Range(@) THEN @
                                ELSE Append(@, order.symbol),
                  !.positions[order.symbol] = booked.position,
                  !.trades = Append(@, trade),
                  !.closed_trades = IF trade_pnl # R(0) THEN Append(@, trade) ELSE @,
                  !.orders = Remove(@, order)]

\* One iteration of the loop of process_orders.
ProcessOrder(b, order, current_bar) ==
    IF NoQuote(order, current_bar) THEN b
    ELSE IF MatchPrice(order, current_bar[order.symbol]) = None THEN b
    ELSE FillOrder(b, order, current_bar[order.symbol],
                   MatchPrice(order, current_bar[order.symbol]))

\* A loop that ends at the first order it cannot quote.
RECURSIVE ProcessOrdersUntilGap(_, _, _)
ProcessOrdersUntilGap(b, snapshot, current_bar) ==
    IF snapshot = <<>> \/ NoQuote(Head(snapshot), current_bar) THEN b
    ELSE ProcessOrdersUntilGap(ProcessOrder(b, Head(snapshot), current_bar),
                               Tail(snapshot), current_bar)

\* A loop that walks the snapshot from its newest order to its oldest.
RECURSIVE ProcessOrdersNewestFirst(_, _, _)
ProcessOrdersNewestFirst(b, snapshot, current_bar) ==
    IF snapshot = <<>> THEN b
    ELSE ProcessOrdersNewestFirst(
            ProcessOrder(b, snapshot[Len(snapshot)], current_bar),
            SubSeq(snapshot, 1, Len(snapshot) - 1), current_bar)

\* BacktestSimulationBroker.process_orders: the loop over the snapshot
\* list(self.orders).
RECURSIVE ProcessOrders(_, _, _)
ProcessOrders(b, snapshot, current_bar) ==
    IF snapshot = <<>> THEN b
    ELSE ProcessOrders(ProcessOrder(b, Head(snapshot), current_bar),
                       Tail(snapshot), current_bar)

(***************************************************************************)
(* Strategy (src/src/strategy/strategy.py).  on_event and on_fill are      *)
(* abstract: on_event creates any orders, on_fill records the fill.        *)
(***************************************************************************)
Strategy == [pending_orders |-> <<>>, order_id_counter |-> 0, fills_received |-> <<>>]

\* Strategy.create_order.
CreateOrder(st, order) ==
    [st EXCEPT !.pending_orders = Append(@, order), !.order_id_counter = @ + 1]

RECURSIVE CreateOrders(_, _)
CreateOrders(st, orders) ==
    IF orders = <<>> THEN st
    ELSE CreateOrders(CreateOrder(st, Head(orders)), Tail(orders))

\* A get_orders that returns the copy and leaves the pending list as it is.
GetOrdersKeepsPending(st) == [orders |-> st.pending_orders, strategy |-> st]

\* Strategy.get_orders: the copy returned and the strategy with the list cleared.
GetOrders(st) ==
    [orders |-> st.pending_orders, strategy |-> [st EXCEPT !.pending_orders = <<>>]]

\* Strategy.on_fill_event.
OnFillEvent(st, event) ==
    [st EXCEPT !.fills_received = Append(@, event.fill.order_id)]


(***************************************************************************)
(* State.                                                                  *)
(***************************************************************************)
VARIABLES
    portfolio,  \* the Portfolio object
    risk,       \* the RiskManager object, or None when the engine has none
    broker,     \* the BrokerSim object
    strategy,   \* the Strategy object
    buses,      \* the EventBus objects: the engine's and the portfolio's own
    engine,     \* BacktestEngine.run: control position and local variables
    clock,      \* the wall clock datetime.now() reads
    last,       \* observation: the latest Portfolio.apply_fill call
    obs         \* observation: counters of what has happened so far

vars == <<portfolio, risk, broker, strategy, buses, engine, clock, last, obs>>

\* Portfolio.__init__'s default initial_cash.
InitialCash == 100000

Sides == {BUY, SELL}

Slippages == {0, 1}

\* The risk managers an engine is constructed with (None: no risk manager).
RiskChoices == {Nothing, RiskManager(1, 15, <<1, 2>>)}

\* The orders a strategy creates in an engine run.
StrategyOrders == {Order(s, d, 1, MARKET, None, None) : s \in Symbols, d \in Sides}

\* The fills handed to Portfolio.apply_fill in a ledger behaviour.
LedgerFills(timestamp) ==
    {Fill(0, timestamp, s, d, q, px, 0, c) :
        s \in Symbols, d \in Sides, q \in Quantities, px \in Prices, c \in Commissions}

SeqsUpTo(S, n) == UNION {[1..k -> S] : k \in 0..n}

NoLast == [op |-> "none"]

NoObs ==
    [ops |-> 0, price_published |-> 0, price_handled |-> 0,
     fills_published |-> 0, fills_applied |-> 0, rejected |-> 0,
     rejected_in_step |-> 0, submitted_after_reject |-> 0,
     delivered |-> <<>>, open_at_exhaustion |-> [s \in Symbols |-> 0],
     closing_orders |-> <<>>, last_price |-> [s \in Symbols |-> None]]

\* A registration that subscribes the strategy to fills before the portfolio.
RegisterStrategyFirst(bus, risk_manager) ==
    LET b1 == Subscribe(bus, "FillEvent", "strategy.on_fill_event")
        b2 == Subscribe(b1, "PriceUpdateEvent", "portfolio.on_price_update")
        b3 == Subscribe(b2, "FillEvent", "portfolio.on_fill")
    IN  IF risk_manager # Nothing
        THEN Subscribe(b3, "EquityUpdateEvent", "risk_manager.on_equity_update")
        ELSE b3

\* BacktestEngine._register_event_subscribers.
RegisterEventSubscribers(bus, risk_manager) ==
    LET b1 == Subscribe(bus, "FillEvent", "portfolio.on_fill")
        b2 == Subscribe(b1, "PriceUpdateEvent", "portfolio.on_price_update")
        b3 == Subscribe(b2, "FillEvent", "strategy.on_fill_event")
    IN  IF risk_manager # Nothing
        THEN Subscribe(b3, "EquityUpdateEvent", "risk_manager.on_equity_update")
        ELSE b3

Idle ==
    [pc |-> "idle", nevents |-> 0, current_timestamp |-> None, event |-> Nothing,
     orders |-> <<>>, order |-> Nothing, fill |-> Nothing, phase |-> "run",
     pub |-> Nothing, k |-> 0, ret |-> "none", close_items |-> <<>>, error |-> "none"]

(***************************************************************************)
(* The Portfolio's own publication of an EquityUpdateEvent                 *)
(* (portfolio.py lines 58-63 and 162-167): synchronous delivery to the     *)
(* callbacks subscribed on the portfolio's own bus.                        *)
(***************************************************************************)
RECURSIVE DeliverEquityUpdate(_, _, _)
DeliverEquityUpdate(callbacks, rk, event) ==
    IF callbacks = <<>> THEN rk
    ELSE DeliverEquityUpdate(
            Tail(callbacks),
            IF Head(callbacks) = "risk_manager.on_equity_update" /\ rk # Nothing
            THEN OnEquityUpdate(rk, event) ELSE rk,
            event)

\* Portfolio.apply_fill as a whole: the ledger update, then the publication.
PortfolioApplyFill(fill) ==
    LET p1 == ApplyFill(portfolio, fill)
    IN  /\ portfolio' = p1
        /\ risk' = DeliverEquityUpdate(
                      Callbacks(buses[p1.event_bus],
                                EquityUpdateEvent(TotalEquity(p1), fill.timestamp)),
                      risk, EquityUpdateEvent(TotalEquity(p1), fill.timestamp))
        /\ last' = [op |-> "apply_fill", fill |-> fill,
                    quantity_before |-> portfolio.positions[fill.symbol].quantity,
                    trades_before |-> Len(portfolio.trades),
                    cash_before |-> portfolio.cash]

\* An on_price_update that records the equity sample before refreshing the
\* unrealized PnL.
OnPriceUpdateRecordsFirst(p, event) ==
    UpdateUnrealizedPnl(RecordEquity(p, event.timestamp), event.symbol, event.price)

\* Portfolio.on_price_update, up to the publication of its EquityUpdateEvent:
\* update_unrealized_pnl({symbol: price}), then record_equity(timestamp).
OnPriceUpdate(p, event) ==
    RecordEquity(UpdateUnrealizedPnl(p, event.symbol, event.price), event.timestamp)

\* Portfolio.on_price_update as a whole, for an event that carries a price.
PortfolioOnPriceUpdate(event) ==
    LET p1 == OnPriceUpdate(portfolio, event)
    IN  /\ portfolio' = p1
        /\ risk' = DeliverEquityUpdate(
                      Callbacks(buses[p1.event_bus],
                                EquityUpdateEvent(TotalEquity(p1), event.timestamp)),
                      risk, EquityUpdateEvent(TotalEquity(p1), event.timestamp))

\* update_unrealized_pnl subtracts from the price: with price None and an open
\* position in the symbol the subtraction raises TypeError.
PriceUpdateRaises(p, event) ==
    /\ event.price = None
    /\ event.symbol \in Range(p.pos_keys)
    /\ p.positions[event.symbol].quantity # 0

(***************************************************************************)
(* Ledger behaviours: a Portfolio driven directly through its methods.     *)
(***************************************************************************)
InitLedger ==
    /\ portfolio = NewPortfolio(InitialCash)
    /\ risk = Nothing
    /\ broker = BrokerSim(0)
    /\ strategy = Strategy
    /\ buses = [engine_bus |-> EventBus, portfolio_bus |-> EventBus]
    /\ engine = Idle
    /\ clock = 1
    /\ last = NoLast
    /\ obs = NoObs

LedgerApplyFill ==
    /\ obs.ops < MaxOps
    /\ \E fill \in LedgerFills(obs.ops + 1) : PortfolioApplyFill(fill)
    /\ obs' = [obs EXCEPT !.ops = @ + 1, !.fills_applied = @ + 1]
    /\ UNCHANGED <<broker, strategy, buses, engine, clock>>

\* update_unrealized_pnl({symbol: price}); obs keeps the latest price each
\* symbol was updated with.
LedgerUpdateUnrealizedPnl ==
    /\ obs.ops < MaxOps
    /\ \E s \in Symbols, px \in Prices :
          /\ portfolio' = UpdateUnrealizedPnl(portfolio, s, px)
          /\ obs' = [obs EXCEPT !.ops = @ + 1, !.last_price[s] = px]
    /\ last' = NoLast
    /\ UNCHANGED <<risk, broker, strategy, buses, engine, clock>>

LedgerGetPosition ==
    /\ obs.ops < MaxOps
    /\ \E s \in Symbols : portfolio' = EnsurePosition(portfolio, s)
    /\ obs' = [obs EXCEPT !.ops = @ + 1]
    /\ last' = NoLast
    /\ UNCHANGED <<risk, broker, strategy, buses, engine, clock>>

LedgerRecordEquity ==
    /\ obs.ops < MaxOps
    /\ portfolio' = RecordEquity(portfolio, obs.ops + 1)
    /\ obs' = [obs EXCEPT !.ops = @ + 1]
    /\ last' = NoLast
    /\ UNCHANGED <<risk, broker, strategy, buses, engine, clock>>

NextLedger ==
    \/ LedgerApplyFill
    \/ LedgerUpdateUnrealizedPnl
    \/ LedgerGetPosition
    \/ LedgerRecordEquity

SpecLedger == InitLedger /\ [][NextLedger]_vars


(***************************************************************************)
(* Risk behaviours: a RiskManager with any combination of limits and a     *)
(* Portfolio, driven directly: fills and price updates move the portfolio, *)
(* equity updates reach the risk manager, and validate_order is called     *)
(* with orders of the strategy's kind.                                     *)
(***************************************************************************)
\* Calls made in a risk behaviour.
MaxRiskOps == 3

\* The initial_cash of the portfolio of a risk behaviour.
RiskCash == 20

\* The risk managers of a risk behaviour: each limit absent or present.
RiskManagers ==
    {RiskManager(max_position_size, max_portfolio_exposure, max_drawdown) :
        max_position_size \in {None, 2}, max_portfolio_exposure \in {None, 15},
        max_drawdown \in {RNone, <<1, 10>>}}

\* The orders handed to validate_order in a risk behaviour.
RiskOrders ==
    {Order(s, d, q, IF limit = None THEN MARKET ELSE LIMIT, limit, None) :
        s \in Symbols, d \in Sides, q \in Quantities, limit \in {None, 10}}

\* The fills applied to the portfolio in a risk behaviour.
RiskFills(timestamp) ==
    {Fill(0, timestamp, s, d, q, px, 0, 0) :
        s \in Symbols, d \in Sides, q \in Quantities, px \in Prices}

InitRisk ==
    /\ portfolio = NewPortfolio(RiskCash)
    /\ risk \in RiskManagers
    /\ broker = BrokerSim(0)
    /\ strategy = Strategy
    /\ buses = [engine_bus |-> EventBus, portfolio_bus |-> EventBus]
    /\ engine = [pc |-> "risk"]
    /\ clock = 1
    /\ last = NoLast
    /\ obs = [ops |-> 0, equities |-> {}]

RiskApplyFill ==
    /\ obs.ops < MaxRiskOps
    /\ \E fill \in RiskFills(obs.ops + 1) : PortfolioApplyFill(fill)
    /\ obs' = [obs EXCEPT !.ops = @ + 1]
    /\ UNCHANGED <<broker, strategy, buses, engine, clock>>

RiskPriceUpdate ==
    /\ obs.ops < MaxRiskOps
    /\ \E s \in Symbols, px \in Prices :
          PortfolioOnPriceUpdate(PriceUpdateEvent(s, px, obs.ops + 1))
    /\ last' = [op |-> "on_price_update"]
    /\ obs' = [obs EXCEPT !.ops = @ + 1]
    /\ UNCHANGED <<broker, strategy, buses, engine, clock>>

\* An EquityUpdateEvent reaches risk_manager.on_equity_update; obs.equities
\* is the set of equity values the calls so far have carried.
RiskOnEquityUpdate ==
    /\ obs.ops < MaxRiskOps
    /\ \E equity \in {RiskCash - 5, RiskCash} :
          /\ risk' = OnEquityUpdate(risk, EquityUpdateEvent(R(equity), obs.ops + 1))
          /\ last' = [op |-> "on_equity_update", equity |-> equity]
          /\ obs' = [obs EXCEPT !.ops = @ + 1, !.equities = @ \cup {equity}]
    /\ UNCHANGED <<portfolio, broker, strategy, buses, engine, clock>>

\* A caller calls risk_manager.update_peak_equity(equity).
RiskUpdatePeakEquity ==
    /\ obs.ops < MaxRiskOps
    /\ \E equity \in {RiskCash - 5, RiskCash} :
          /\ risk' = UpdatePeakEquity(risk, R(equity))
          /\ last' = [op |-> "update_peak_equity", equity |-> equity]
    /\ obs' = [obs EXCEPT !.ops = @ + 1]
    /\ UNCHANGED <<portfolio, broker, strategy, buses, engine, clock>>

\* A caller calls risk_manager.validate_order(order, portfolio).
RiskValidateOrder ==
    /\ obs.ops < MaxRiskOps
    /\ \E order \in RiskOrders :
          LET v == ValidateOrder(risk, portfolio, order)
          IN  /\ risk' = v.risk
              /\ portfolio' = v.portfolio
              /\ last' = [op |-> "validate_order", order |-> order,
                          result |-> v.result]
    /\ obs' = [obs EXCEPT !.ops = @ + 1]
    /\ UNCHANGED <<broker, strategy, buses, engine, clock>>

NextRisk ==
    \/ RiskApplyFill
    \/ RiskPriceUpdate
    \/ RiskOnEquityUpdate
    \/ RiskUpdatePeakEquity
    \/ RiskValidateOrder

SpecRisk == InitRisk /\ [][NextRisk]_vars

(***************************************************************************)
(* Drawdown behaviours: risk behaviours of a manager with a drawdown limit *)
(* over a portfolio whose initial cash a single adverse price move of the  *)
(* grid consumes, so that total equity reaches zero.                       *)
(***************************************************************************)
\* The initial_cash of the portfolio of a drawdown behaviour.
DrawdownCash == 4

\* The risk managers of a drawdown behaviour: max_drawdown is configured.
DrawdownManagers == {rk \in RiskManagers : rk.max_drawdown # RNone}

InitDrawdown ==
    /\ portfolio = NewPortfolio(DrawdownCash)
    /\ risk \in DrawdownManagers
    /\ broker = BrokerSim(0)
    /\ strategy = Strategy
    /\ buses = [engine_bus |-> EventBus, portfolio_bus |-> EventBus]
    /\ engine = [pc |-> "risk"]
    /\ clock = 1
    /\ last = NoLast
    /\ obs = [ops |-> 0, equities |-> {}]

NextDrawdown == NextRisk

SpecDrawdown == InitDrawdown /\ [][NextDrawdown]_vars


(***************************************************************************)
(* Bus behaviours: an EventBus driven through subscribe and publish, with  *)
(* handlers that may publish further events while they run.  engine.stack  *)
(* is the call stack of publish calls in progress, innermost last.         *)
(***************************************************************************)
\* Calls of subscribe in a bus behaviour.
MaxSubscribes == 3

\* Calls of publish, nested ones included, in a bus behaviour.
MaxPublishes == 2

Handlers == {"h1", "h2"}

\* The keys handed to subscribe: two domain-event classes, their base class
\* and the legacy keys.
BusKeys == {"FillEvent", "EquityUpdateEvent", "DomainEvent"} \cup LegacyKeys

\* The objects handed to publish: domain events and a market-data Event.
BusEvents == {[type |-> t] : t \in {"FillEvent", "EquityUpdateEvent", "Event"}}

NoCall ==
    [op |-> "none", key |-> "none", callback |-> "none", event |-> [type |-> "none"],
     raised |-> FALSE, invoked |-> <<>>, before |-> EventBus, depth |-> 0]

InitBus ==
    /\ portfolio = NewPortfolio(InitialCash)
    /\ risk = Nothing
    /\ broker = BrokerSim(0)
    /\ strategy = Strategy
    /\ buses = [engine_bus |-> EventBus, portfolio_bus |-> EventBus]
    /\ engine = [pc |-> "bus", stack |-> <<>>]
    /\ clock = 1
    /\ last = NoCall
    /\ obs = [subscriptions |-> <<>>, publishes |-> 0, returns |-> 0]

TopFrame == engine.stack[Len(engine.stack)]

\* subscribe(key, callback), called outside any publish.
BusSubscribe ==
    /\ engine.stack = <<>>
    /\ Len(obs.subscriptions) < MaxSubscribes
    /\ \E key \in BusKeys, callback \in Handlers :
          /\ buses' = [buses EXCEPT !.engine_bus = Subscribe(@, key, callback)]
          /\ obs' = [obs EXCEPT !.subscriptions =
                                   Append(@, [key |-> key, callback |-> callback])]
          /\ last' = [NoCall EXCEPT !.op = "subscribe", !.key = key,
                                    !.callback = callback,
                                    !.before = buses.engine_bus]
    /\ UNCHANGED <<portfolio, risk, broker, strategy, engine, clock>>

\* publish(event) is entered: a market-data event is queued, and the loop
\* over the callbacks begins.
EnterPublish(event) ==
    /\ obs.publishes < MaxPublishes
    /\ buses' = [buses EXCEPT !.engine_bus = Enqueue(@, event)]
    /\ engine' = [engine EXCEPT !.stack =
                       Append(@, [event |-> event, k |-> 1, running |-> FALSE,
                                  invoked |-> <<>>, before |-> buses.engine_bus])]
    /\ obs' = [obs EXCEPT !.publishes = @ + 1]
    /\ last' = NoCall
    /\ UNCHANGED <<portfolio, risk, broker, strategy, clock>>

\* publish(event), called outside any publish.
BusPublish ==
    /\ engine.stack = <<>>
    /\ \E event \in BusEvents : EnterPublish(event)

\* publish invokes its next callback.
BusInvokeCallback ==
    /\ engine.stack # <<>>
    /\ ~TopFrame.running
    /\ TopFrame.k <= Len(Targets(buses.engine_bus, TopFrame.event))
    /\ engine' = [engine EXCEPT
                     !.stack[Len(engine.stack)].running = TRUE,
                     !.stack[Len(engine.stack)].invoked =
                         Append(@, Targets(buses.engine_bus, TopFrame.event)[TopFrame.k])]
    /\ last' = NoCall
    /\ UNCHANGED <<portfolio, risk, broker, strategy, buses, clock, obs>>

\* The running handler publishes an event.
HandlerPublishes ==
    /\ engine.stack # <<>>
    /\ TopFrame.running
    /\ \E event \in BusEvents : EnterPublish(event)

\* The running handler returns: publish goes on to its next callback.
HandlerReturns ==
    /\ engine.stack # <<>>
    /\ TopFrame.running
    /\ engine' = [engine EXCEPT !.stack[Len(engine.stack)].running = FALSE,
                                !.stack[Len(engine.stack)].k = @ + 1]
    /\ last' = NoCall
    /\ UNCHANGED <<portfolio, risk, broker, strategy, buses, clock, obs>>

\* publish has invoked every callback and returns to its caller.
BusPublishReturns ==
    /\ engine.stack # <<>>
    /\ ~TopFrame.running
    /\ TopFrame.k > Len(Targets(buses.engine_bus, TopFrame.event))
    /\ engine' = [engine EXCEPT !.stack = SubSeq(@, 1, Len(@) - 1)]
    /\ last' = [NoCall EXCEPT !.op = "publish", !.event = TopFrame.event,
                              !.invoked = TopFrame.invoked,
                              !.before = TopFrame.before,
                              !.depth = Len(engine.stack)]
    /\ obs' = [obs EXCEPT !.returns = @ + 1]
    /\ UNCHANGED <<portfolio, risk, broker, strategy, buses, clock>>

NextBus ==
    \/ BusSubscribe
    \/ BusPublish
    \/ BusInvokeCallback
    \/ HandlerPublishes
    \/ HandlerReturns
    \/ BusPublishReturns

SpecBus == InitBus /\ [][NextBus]_vars


(***************************************************************************)
(* Order-flow behaviours: a Strategy whose code calls create_order at any  *)
(* moment, and the engine's order loop, which calls get_orders and then    *)
(* walks the list it got.                                                  *)
(***************************************************************************)
\* Calls of create_order in an order-flow behaviour.
MaxCreated == 3

InitOrderFlow ==
    /\ portfolio = NewPortfolio(InitialCash)
    /\ risk = Nothing
    /\ broker = BrokerSim(0)
    /\ strategy = Strategy
    /\ buses = [engine_bus |-> EventBus, portfolio_bus |-> EventBus]
    /\ engine = [pc |-> "order_flow", orders |-> <<>>]
    /\ clock = 1
    /\ last = [op |-> "none", returned |-> <<>>, pending_before |-> <<>>]
    /\ obs = [created |-> <<>>, returned |-> <<>>, submitted |-> <<>>]

\* The strategy's code calls create_order(order).
StrategyCreateOrder ==
    /\ Len(obs.created) < MaxCreated
    /\ \E order \in StrategyOrders :
          /\ strategy' = CreateOrder(strategy, order)
          /\ obs' = [obs EXCEPT !.created = Append(@, order)]
    /\ last' = [last EXCEPT !.op = "create_order"]
    /\ UNCHANGED <<portfolio, risk, broker, buses, engine, clock>>

\* orders = self.strategy.get_orders(), once the previous list is walked.
StrategyGetOrders ==
    /\ engine.orders = <<>>
    /\ strategy' = GetOrders(strategy).strategy
    /\ engine' = [engine EXCEPT !.orders = GetOrders(strategy).orders]
    /\ obs' = [obs EXCEPT !.returned = @ \o GetOrders(strategy).orders]
    /\ last' = [op |-> "get_orders", returned |-> GetOrders(strategy).orders,
                pending_before |-> strategy.pending_orders]
    /\ UNCHANGED <<portfolio, risk, broker, buses, clock>>

\* for order in orders: the loop takes the next order and submits it.
LoopSubmitsOrder ==
    /\ engine.orders # <<>>
    /\ engine' = [engine EXCEPT !.orders = Tail(@)]
    /\ obs' = [obs EXCEPT !.submitted = Append(@, Head(engine.orders))]
    /\ last' = [last EXCEPT !.op = "send_order"]
    /\ UNCHANGED <<portfolio, risk, broker, strategy, buses, clock>>

NextOrderFlow ==
    \/ StrategyCreateOrder
    \/ StrategyGetOrders
    \/ LoopSubmitsOrder

SpecOrderFlow == InitOrderFlow /\ [][NextOrderFlow]_vars

(***************************************************************************)
(* Matching behaviours: a BacktestSimulationBroker driven through          *)
(* new_order and next(current_bar).  last holds the arguments and the      *)
(* outcome of the latest call.                                             *)
(***************************************************************************)
\* Calls of new_order in a matching behaviour.
MaxNewOrders == 2

\* Calls of next(current_bar) in a matching behaviour.
MaxBars == 2

\* The signed quantities handed to new_order.
SignedQuantities == {-2, -1, 0, 1, 2}

\* The limit and stop arguments of new_order.
TriggerPrices == {None, 11}

\* The price fields (open, high, low, close) of the bars of a behaviour: a
\* full bar, bars that lack some fields, a bar with neither open nor close.
BarShapes ==
    {<<10, 12, 10, 11>>, <<12, None, None, 11>>, <<None, 12, 10, 11>>,
     <<None, 12, 10, None>>}

\* The MultiBars of timestamp t: for every symbol a Bar or no bar.
MultiBars(t) ==
    [Symbols -> {Nothing}] \cup
    {[s \in Symbols |-> IF f[s] = <<>> THEN Nothing
                        ELSE Bar(t, s, f[s][1], f[s][2], f[s][3], f[s][4])] :
       f \in [Symbols -> BarShapes \cup {<<>>}]}

\* The record of the latest call, before any call; a call records its own
\* arguments and outcome and leaves the other fields as they are here.
NoBrokerCall ==
    [op |-> "none", raised |-> FALSE, symbol |-> "AAPL", quantity |-> 0,
     limit |-> None, stop |-> None, order |-> Nothing,
     current_bar |-> [s \in Symbols |-> Nothing]]

InitMatching ==
    /\ portfolio = Nothing
    /\ risk = Nothing
    /\ broker \in {BacktestSimulationBroker(InitialCash, slippage, commission) :
                      slippage \in Slippages, commission \in Commissions}
    /\ strategy = Nothing
    /\ buses = Nothing
    /\ engine = [pc |-> "matching"]
    /\ clock = 0
    /\ last = NoBrokerCall
    /\ obs = [new_orders |-> 0, accepted |-> 0, skipped |-> 0, not_filled |-> 0]

\* A caller calls new_order(symbol, quantity, limit, stop).
BrokerNewOrder ==
    /\ obs.new_orders < MaxNewOrders
    /\ \E symbol \in Symbols, quantity \in SignedQuantities,
          limit \in TriggerPrices, stop \in TriggerPrices :
          LET call == NewOrder(broker, symbol, quantity, limit, stop)
          IN  /\ broker' = call.broker
              /\ last' = [NoBrokerCall EXCEPT
                              !.op = "new_order", !.raised = call.raised,
                              !.symbol = symbol, !.quantity = quantity,
                              !.limit = limit, !.stop = stop,
                              !.order = call.order]
              /\ obs' = [obs EXCEPT !.new_orders = @ + 1,
                                    !.accepted = IF call.raised THEN @ ELSE @ + 1]
    /\ UNCHANGED <<portfolio, risk, strategy, buses, engine, clock>>

\* The orders process_orders logs as skipped (no bar, or no open/close).
Skipped(orders, current_bar) ==
    LET Test(order) == NoQuote(order, current_bar)
    IN  SelectSeq(orders, Test)

\* The orders process_orders logs as not filled this bar.
NotFilled(orders, current_bar) ==
    LET Test(order) == /\ ~NoQuote(order, current_bar)
                       /\ MatchPrice(order, current_bar[order.symbol]) = None
    IN  SelectSeq(orders, Test)

\* Broker.next(current_bar) calls process_orders(current_bar); the bars of
\* successive calls carry increasing timestamps.  obs counts the orders the
\* calls have logged as skipped and as not filled.
NextOn(current_bars) ==
    /\ clock < MaxBars
    /\ clock' = clock + 1
    /\ \E current_bar \in current_bars :
          /\ broker' = ProcessOrders(broker, broker.orders, current_bar)
          /\ last' = [NoBrokerCall EXCEPT !.op = "process_orders",
                                           !.current_bar = current_bar]
          /\ obs' = [obs EXCEPT
                        !.skipped = @ + Len(Skipped(broker.orders, current_bar)),
                        !.not_filled = @ + Len(NotFilled(broker.orders, current_bar))]
    /\ UNCHANGED <<portfolio, risk, strategy, buses, engine>>

BrokerNext == NextOn(MultiBars(clock + 1))

NextMatching ==
    \/ BrokerNewOrder
    \/ BrokerNext

SpecMatching == InitMatching /\ [][NextMatching]_vars

(***************************************************************************)
(* Fill-rule behaviours: a BacktestSimulationBroker without slippage and   *)
(* commission that holds one accepted AAPL order (market, limit or stop,   *)
(* buy or sell) and is driven through next(current_bar) with AAPL bars     *)
(* whose fields range over a price grid around the trigger price.          *)
(***************************************************************************)
\* The open and close fields of the bars of a fill-rule behaviour.
RuleOpens == {None, 10, 12}

RuleCloses == {None, 11}

\* The high and low fields of the bars of a fill-rule behaviour.
RuleExtremes == {None, 10, 11, 12}

\* The MultiBars of timestamp t: a bar for AAPL or none, no bar for MSFT.
RuleBars(t) ==
    {[s \in Symbols |-> Nothing]} \cup
    {[s \in Symbols |-> IF s = "AAPL" THEN Bar(t, s, open, high, low, close)
                        ELSE Nothing] :
       open \in RuleOpens, high \in RuleExtremes, low \in RuleExtremes,
       close \in RuleCloses}

InitFillRules ==
    /\ portfolio = Nothing
    /\ risk = Nothing
    /\ broker \in {NewOrder(BacktestSimulationBroker(InitialCash, 0, 0),
                             "AAPL", quantity, limit, stop).broker :
                      quantity \in {-1, 1}, limit \in TriggerPrices,
                      stop \in TriggerPrices}
    /\ strategy = Nothing
    /\ buses = Nothing
    /\ engine = [pc |-> "fill_rules"]
    /\ clock = 0
    /\ last = NoBrokerCall
    /\ obs = [new_orders |-> 1, accepted |-> 1, skipped |-> 0, not_filled |-> 0]

RuleNext == NextOn(RuleBars(clock + 1))

NextFillRules == RuleNext

SpecFillRules == InitFillRules /\ [][NextFillRules]_vars


(***************************************************************************)
(* BrokerSim behaviours: one BrokerSim instance whose send_order is called *)
(* directly, with and without a current price; a call that raises leaves   *)
(* the instance in use.                                                    *)
(***************************************************************************)
\* Number of send_order calls in a BrokerSim behaviour.
MaxSends == 4

InitBrokerSim ==
    /\ portfolio = Nothing
    /\ risk = Nothing
    /\ \E slippage \in Slippages : broker = BrokerSim(slippage)
    /\ strategy = Nothing
    /\ buses = Nothing
    /\ engine = [pc |-> "broker_sim"]
    /\ clock = 1
    /\ last = NoLast
    /\ obs = [sends |-> 0, failed |-> 0, issued |-> <<>>]

\* send_order(order, current_price); obs.issued lists the order ids of the
\* fills returned so far, in the order of the calls.
BrokerSimSendOrder ==
    /\ obs.sends < MaxSends
    /\ \E order \in StrategyOrders, current_price \in Prices \cup {None},
          now \in clock..MaxTime :
          LET r == SendOrder(broker, order, current_price, now)
          IN  /\ broker' = r.broker
              /\ clock' = now
              /\ last' = [op |-> "send_order", order |-> order,
                          current_price |-> current_price, raised |-> r.raised,
                          fill |-> r.fill]
              /\ obs' = [obs EXCEPT
                           !.sends = @ + 1,
                           !.failed = IF r.raised THEN @ + 1 ELSE @,
                           !.issued = IF r.raised THEN @
                                      ELSE Append(@, r.fill.order_id)]
    /\ UNCHANGED <<portfolio, risk, strategy, buses, engine>>

NextBrokerSim == BrokerSimSendOrder

SpecBrokerSim == InitBrokerSim /\ [][NextBrokerSim]_vars


(***************************************************************************)
(* Engine behaviours: BacktestEngine.run (src/src/engine.py), one action   *)
(* per call the loop makes and one per callback the engine's bus invokes.  *)
(***************************************************************************)
\* The state after BacktestEngine.__init__, when run() is entered.
Init ==
    /\ portfolio = NewPortfolio(InitialCash)
    /\ risk \in RiskChoices
    /\ \E slippage \in Slippages : broker = BrokerSim(slippage)
    /\ strategy = Strategy
    /\ buses = [engine_bus |-> RegisterEventSubscribers(EventBus, risk),
                portfolio_bus |-> EventBus]
    /\ engine = [Idle EXCEPT !.pc = "fetch"]
    /\ clock = 1
    /\ last = NoLast
    /\ obs = NoObs

\* EventBus.publish(event) on the engine's bus, continuing at ret afterwards.
Publish(e, event, ret) == [e EXCEPT !.pc = "dispatch", !.pub = event, !.k = 1, !.ret = ret]

\* The callback EventBus.publish is about to invoke, or "none".
CurrentCallback ==
    IF engine.pc = "dispatch" /\ engine.k <= Len(Callbacks(buses.engine_bus, engine.pub))
    THEN Callbacks(buses.engine_bus, engine.pub)[engine.k]
    ELSE "none"

\* A loop that publishes the observation's price update and goes on to
\* get_orders without handing the observation to the strategy.
FetchEventSkipsStrategy ==
    /\ engine.pc = "fetch"
    /\ engine.nevents < MaxEvents
    /\ \E s \in Symbols, px \in Prices \cup {None},
          t \in (IF engine.current_timestamp = None THEN 1
                 ELSE engine.current_timestamp)..MaxTime :
          engine' = Publish([engine EXCEPT
                               !.nevents = @ + 1,
                               !.current_timestamp = t,
                               !.event = [symbol |-> s, close_price |-> px,
                                          timestamp |-> t]],
                            PriceUpdateEvent(s, px, t), "get_orders")
    /\ obs' = [obs EXCEPT !.price_published = @ + 1, !.rejected_in_step = 0,
                          !.submitted_after_reject = 0]
    /\ UNCHANGED <<portfolio, risk, broker, strategy, buses, clock, last>>

\* The for loop takes the next observation of the stream (timestamps do not
\* decrease) and publishes its PriceUpdateEvent.
FetchEvent ==
    /\ engine.pc = "fetch"
    /\ engine.nevents < MaxEvents
    /\ \E s \in Symbols, px \in Prices \cup {None},
          t \in (IF engine.current_timestamp = None THEN 1
                 ELSE engine.current_timestamp)..MaxTime :
          engine' = Publish([engine EXCEPT
                               !.nevents = @ + 1,
                               !.current_timestamp = t,
                               !.event = [symbol |-> s, close_price |-> px,
                                          timestamp |-> t]],
                            PriceUpdateEvent(s, px, t), "on_event")
    /\ obs' = [obs EXCEPT !.price_published = @ + 1, !.rejected_in_step = 0,
                          !.submitted_after_reject = 0]
    /\ UNCHANGED <<portfolio, risk, broker, strategy, buses, clock, last>>

\* The stream is exhausted: finalize_trades decides whether positions are closed.
StreamExhausted ==
    /\ engine.pc = "fetch"
    /\ \E finalize_trades \in BOOLEAN :
          engine' = IF finalize_trades
                    THEN [engine EXCEPT !.pc = "closing", !.phase = "closing",
                                        !.event = Nothing,
                                        !.close_items = portfolio.pos_keys]
                    ELSE [engine EXCEPT !.pc = "done", !.event = Nothing]
    /\ obs' = [obs EXCEPT !.open_at_exhaustion =
                              [s \in Symbols |-> portfolio.positions[s].quantity]]
    /\ UNCHANGED <<portfolio, risk, broker, strategy, buses, clock, last>>

\* publish: callback portfolio.on_price_update.
DeliverPortfolioOnPriceUpdate ==
    /\ CurrentCallback = "portfolio.on_price_update"
    /\ IF PriceUpdateRaises(portfolio, engine.pub)
       THEN /\ engine' = [engine EXCEPT !.pc = "raised", !.error = "TypeError"]
            /\ UNCHANGED <<portfolio, risk, obs>>
       ELSE /\ PortfolioOnPriceUpdate(engine.pub)
            /\ engine' = [engine EXCEPT !.k = @ + 1]
            /\ obs' = [obs EXCEPT !.price_handled = @ + 1]
    /\ UNCHANGED <<broker, strategy, buses, clock, last>>

\* publish: callback portfolio.on_fill.
DeliverPortfolioOnFill ==
    /\ CurrentCallback = "portfolio.on_fill"
    /\ PortfolioApplyFill(engine.pub.fill)
    /\ engine' = [engine EXCEPT !.k = @ + 1]
    /\ obs' = [obs EXCEPT !.fills_applied = @ + 1]
    /\ UNCHANGED <<broker, strategy, buses, clock>>

\* publish: callback strategy.on_fill_event.
DeliverStrategyOnFillEvent ==
    /\ CurrentCallback = "strategy.on_fill_event"
    /\ strategy' = OnFillEvent(strategy, engine.pub)
    /\ engine' = [engine EXCEPT !.k = @ + 1]
    /\ UNCHANGED <<portfolio, risk, broker, buses, clock, last, obs>>

\* publish: callback risk_manager.on_equity_update.
DeliverRiskOnEquityUpdate ==
    /\ CurrentCallback = "risk_manager.on_equity_update"
    /\ risk' = OnEquityUpdate(risk, engine.pub)
    /\ engine' = [engine EXCEPT !.k = @ + 1]
    /\ UNCHANGED <<portfolio, broker, strategy, buses, clock, last, obs>>

\* publish returns once every callback of the event's type has run.
PublishReturns ==
    /\ engine.pc = "dispatch"
    /\ CurrentCallback = "none"
    /\ engine' = [engine EXCEPT !.pc = engine.ret, !.pub = Nothing, !.k = 0, !.ret = "none"]
    /\ UNCHANGED <<portfolio, risk, broker, strategy, buses, clock, last, obs>>

\* strategy.on_event(event): the strategy creates zero or more orders.
StrategyOnEvent ==
    /\ engine.pc = "on_event"
    /\ \E orders \in SeqsUpTo(StrategyOrders, MaxOrders) :
          strategy' = CreateOrders(strategy, orders)
    /\ engine' = [engine EXCEPT !.pc = "get_orders"]
    /\ obs' = [obs EXCEPT !.delivered = Append(@, engine.nevents)]
    /\ UNCHANGED <<portfolio, risk, broker, buses, clock, last>>

\* orders = strategy.get_orders().
EngineGetOrders ==
    /\ engine.pc = "get_orders"
    /\ strategy' = GetOrders(strategy).strategy
    /\ engine' = [engine EXCEPT !.pc = "orders", !.orders = GetOrders(strategy).orders]
    /\ UNCHANGED <<portfolio, risk, broker, buses, clock, last, obs>>

\* The order loop is finished: back to the head of the for loop over the stream.
OrdersDone ==
    /\ engine.pc = "orders"
    /\ engine.orders = <<>>
    /\ engine' = [engine EXCEPT !.pc = "fetch"]
    /\ UNCHANGED <<portfolio, risk, broker, strategy, buses, clock, last, obs>>

\* An order loop that leaves the loop (break) on a rejection.
AfterValidationBreak(e, result) ==
    IF result = "raise"
    THEN [e EXCEPT !.pc = "raised", !.error = "ZeroDivisionError"]
    ELSE IF result = "reject"
    THEN [e EXCEPT !.orders = <<>>]
    ELSE [e EXCEPT !.pc = "send", !.order = Head(e.orders), !.orders = Tail(@)]

\* What the order loop does with the verdict of validate_order on the next
\* order: a rejection skips it (continue), an acceptance goes on to send_order.
AfterValidation(e, result) ==
    IF result = "raise"
    THEN [e EXCEPT !.pc = "raised", !.error = "ZeroDivisionError"]
    ELSE IF result = "reject"
    THEN [e EXCEPT !.orders = Tail(@)]
    ELSE [e EXCEPT !.pc = "send", !.order = Head(e.orders), !.orders = Tail(@)]

\* The next order of the loop, with a risk manager: validate_order decides.
ValidateNextOrder ==
    /\ engine.pc = "orders"
    /\ engine.orders # <<>>
    /\ risk # Nothing
    /\ LET v == ValidateOrder(risk, portfolio, Head(engine.orders))
       IN  /\ risk' = v.risk
           /\ portfolio' = v.portfolio
           /\ engine' = AfterValidation(engine, v.result)
           /\ obs' = IF v.result = "reject"
                     THEN [obs EXCEPT !.rejected = @ + 1, !.rejected_in_step = @ + 1]
                     ELSE obs
    /\ UNCHANGED <<broker, strategy, buses, clock, last>>

\* The next order of the loop, without a risk manager.
TakeNextOrder ==
    /\ engine.pc = "orders"
    /\ engine.orders # <<>>
    /\ risk = Nothing
    /\ engine' = AfterValidation(engine, "accept")
    /\ UNCHANGED <<portfolio, risk, broker, strategy, buses, clock, last, obs>>

\* A run() that passes the observation's price whatever the order's symbol.
CurrentPriceAnySymbol(order, event) == event.close_price

\* The current_price argument run() passes to send_order.
CurrentPrice(order, event) ==
    IF order.symbol = event.symbol THEN event.close_price ELSE None

\* fill = send_order(...) and publish(FillEvent(fill, fill.timestamp)), for
\* the price argument given; datetime.now() reads the advancing wall clock.
SubmitOrder(order, current_price) ==
    \E now \in clock..MaxTime :
       LET r == SendOrder(broker, order, current_price, now)
       IN  /\ broker' = r.broker
           /\ clock' = now
           /\ IF r.raised
              THEN /\ engine' = [engine EXCEPT !.pc = "raised", !.error = "ValueError"]
                   /\ obs' = obs
              ELSE /\ engine' = Publish([engine EXCEPT !.fill = r.fill],
                                        FillEvent(r.fill, r.fill.timestamp),
                                        "publish_equity")
                   /\ obs' = [obs EXCEPT
                                !.closing_orders =
                                    IF engine.phase = "closing"
                                    THEN Append(@, order) ELSE @,
                                !.fills_published = @ + 1,
                                !.submitted_after_reject =
                                    IF obs.rejected_in_step > 0 THEN @ + 1 ELSE @]

\* run() sends the validated order.
EngineSendOrder ==
    /\ engine.pc = "send"
    /\ SubmitOrder(engine.order, CurrentPrice(engine.order, engine.event))
    /\ UNCHANGED <<portfolio, risk, strategy, buses, last>>

\* publish(EquityUpdateEvent(portfolio.get_total_equity(), fill.timestamp)).
EnginePublishEquity ==
    /\ engine.pc = "publish_equity"
    /\ engine' = Publish(engine,
                         EquityUpdateEvent(TotalEquity(portfolio), engine.fill.timestamp),
                         IF engine.phase = "run" THEN "orders" ELSE "closing")
    /\ UNCHANGED <<portfolio, risk, broker, strategy, buses, clock, last, obs>>

\* A closing order on the position's own side.
ClosingOrderSameSide(symbol, position) ==
    Order(symbol, IF position.quantity > 0 THEN BUY ELSE SELL,
          Abs(position.quantity), MARKET, None, None)

\* The closing order _close_all_positions creates for a position.
ClosingOrder(symbol, position) ==
    Order(symbol, IF position.quantity > 0 THEN SELL ELSE BUY,
          Abs(position.quantity), MARKET, None, None)

\* _close_all_positions: the next item of the snapshot of positions.items().
CloseNextPosition ==
    /\ engine.pc = "closing"
    /\ engine.close_items # <<>>
    /\ LET symbol == Head(engine.close_items)
           position == portfolio.positions[symbol]
       IN  IF position.quantity # 0
           THEN /\ engine' = [engine EXCEPT !.pc = "send_closing",
                                            !.order = ClosingOrder(symbol, position),
                                            !.close_items = Tail(@)]
           ELSE /\ engine' = [engine EXCEPT !.close_items = Tail(@)]
    /\ UNCHANGED <<portfolio, risk, broker, strategy, buses, clock, last, obs>>

\* _close_all_positions sends the closing order, with no current price.
EngineSendClosingOrder ==
    /\ engine.pc = "send_closing"
    /\ SubmitOrder(engine.order, None)
    /\ UNCHANGED <<portfolio, risk, strategy, buses, last>>

\* _close_all_positions has visited every item.
ClosingDone ==
    /\ engine.pc = "closing"
    /\ engine.close_items = <<>>
    /\ engine' = [engine EXCEPT !.pc = "done"]
    /\ UNCHANGED <<portfolio, risk, broker, strategy, buses, clock, last, obs>>

Next ==
    \/ FetchEvent
    \/ StreamExhausted
    \/ DeliverPortfolioOnPriceUpdate
    \/ DeliverPortfolioOnFill
    \/ DeliverStrategyOnFillEvent
    \/ DeliverRiskOnEquityUpdate
    \/ PublishReturns
    \/ StrategyOnEvent
    \/ EngineGetOrders
    \/ OrdersDone
    \/ ValidateNextOrder
    \/ TakeNextOrder
    \/ EngineSendOrder
    \/ EnginePublishEquity
    \/ CloseNextPosition
    \/ EngineSendClosingOrder
    \/ ClosingDone

Spec == Init /\ [][Next]_vars


(***************************************************************************)
(* Properties of the ledger.                                               *)
(***************************************************************************)
HeldSymbols == Range(portfolio.pos_keys)

AllFlat == \A s \in HeldSymbols : portfolio.positions[s].quantity = 0

TradePnl == RSum([i \in 1..Len(portfolio.trades) |-> portfolio.trades[i].pnl])

\* C1: every Position the Portfolio holds has avg_price = 0 whenever its
\* quantity = 0, after any sequence of apply_fill calls.
C1_FlatPositionHasZeroAvgPrice ==
    \A s \in HeldSymbols :
        portfolio.positions[s].quantity = 0 => portfolio.positions[s].avg_price = R(0)

\* C2: once fills have left every position at quantity 0, get_total_equity()
\* equals initial_cash plus the sum of the pnl of all recorded Trades.
C2_FlatEquityIsInitialCashPlusPnl ==
    (obs.fills_applied > 0 /\ AllFlat)
        => TotalEquity(portfolio) = RAdd(R(portfolio.initial_cash), TradePnl)

\* The latest apply_fill reduced the magnitude of a nonzero position.
LastFillReduces ==
    \/ last.fill.side = BUY /\ last.quantity_before < 0
    \/ last.fill.side = SELL /\ last.quantity_before > 0

\* C3: apply_fill appends a Trade exactly when the fill is a BUY against a short
\* or a SELL against a long position; then it appends one Trade, whose quantity
\* is min(|quantity before|, fill quantity); otherwise the trade list is as before.
C3_TradeIffFillReduces ==
    last.op = "apply_fill" =>
        IF LastFillReduces
        THEN /\ Len(portfolio.trades) = last.trades_before + 1
             /\ portfolio.trades[Len(portfolio.trades)].quantity =
                    Min(Abs(last.quantity_before), last.fill.quantity)
             /\ portfolio.trades[Len(portfolio.trades)].symbol = last.fill.symbol
        ELSE Len(portfolio.trades) = last.trades_before

\* A fill crossed a position through zero: part of it closed, the rest opened.
C3_Witness ==
    /\ last.op = "apply_fill"
    /\ LastFillReduces
    /\ last.fill.quantity > Abs(last.quantity_before)
    /\ Len(portfolio.trades) = 2


(***************************************************************************)
(* Properties of an engine run.                                            *)
(***************************************************************************)
EquityCurve == portfolio.equity_curve

\* The engine's bus is delivering an event of the given type.
Publishing(type) == engine.pc = "dispatch" /\ engine.pub.type = type

\* C4, as stated: at the head of the loop and at the end of the run the curve
\* has one sample per price update handled plus one per fill applied.
C4_SamplePerPriceUpdateAndPerFill ==
    engine.pc \in {"fetch", "done"}
        => Len(EquityCurve) = obs.price_handled + obs.fills_applied

\* C4, amended: the equity curve only grows at its end, and it holds exactly
\* one sample per price update handled (fills add none).
C4_SamplePerPriceUpdate ==
    /\ [](Len(EquityCurve) = obs.price_handled)
    /\ [][/\ Len(EquityCurve') >= Len(EquityCurve)
          /\ SubSeq(EquityCurve', 1, Len(EquityCurve)) = EquityCurve]_vars

\* A run that handled two price updates and applied fills has ended.
C4_Witness ==
    /\ engine.pc = "done"
    /\ obs.price_handled = 2
    /\ obs.fills_applied >= 2
    /\ Len(EquityCurve) = 2

\* C5: the timestamps of the equity curve never decrease.
C5_EquityCurveTimestampsOrdered ==
    \A i, j \in 1..Len(EquityCurve) : i <= j => EquityCurve[i][1] <= EquityCurve[j][1]

\* A run with finalization ended after fills stamped later than the last
\* observation, its curve holding samples of two different times.
C5_Witness ==
    /\ engine.pc = "done"
    /\ engine.phase = "closing"
    /\ Len(EquityCurve) = 2
    /\ EquityCurve[1][1] < EquityCurve[2][1]
    /\ last.op = "apply_fill"
    /\ obs.fills_applied >= 2

\* The unrealized PnL the price update of the current observation must have
\* left in the observation's symbol, where a position is open.
Refreshed(event) ==
    LET pos == portfolio.positions[event.symbol]
    IN  pos.quantity # 0 =>
            pos.unrealized_pnl =
                RMul(RSub(R(event.close_price), pos.avg_price), R(pos.quantity))

\* C6: when the strategy is invoked for observation k, and while the orders of
\* step k are validated and submitted, the curve holds the sample of
\* observation k and (at the strategy's invocation) the unrealized PnL is
\* refreshed; when the next observation is taken, every fill produced so far
\* has been applied to the portfolio and delivered to the strategy.
C6_StepOrdering ==
    /\ (engine.phase = "run" /\ engine.pc \in {"on_event", "get_orders", "orders",
                                               "send", "publish_equity"})
          => /\ obs.price_handled = engine.nevents
             /\ Len(EquityCurve) = engine.nevents
             /\ EquityCurve[Len(EquityCurve)][1] = engine.event.timestamp
    /\ engine.pc = "on_event"
          => /\ Refreshed(engine.event)
             /\ EquityCurve[Len(EquityCurve)][2] = TotalEquity(portfolio)
    /\ (engine.pc = "fetch" \/ Publishing("PriceUpdateEvent"))
          => /\ obs.fills_applied = obs.fills_published
             /\ Len(strategy.fills_received) = obs.fills_published
             /\ Len(strategy.pending_orders) = 0
             /\ engine.orders = <<>>

\* The strategy is invoked for the second observation, whose price update has
\* just re-marked a position opened by a fill of the first step.
C6_Witness ==
    /\ engine.pc = "on_event"
    /\ engine.nevents = 2
    /\ obs.fills_applied >= 1
    /\ portfolio.positions[engine.event.symbol].quantity # 0
    /\ portfolio.positions[engine.event.symbol].unrealized_pnl # R(0)

\* C7: Strategy.on_fill is invoked for a fill only after apply_fill of that fill;
\* the engine's EquityUpdateEvent for the fill is published after both and
\* carries the portfolio's total equity after the fill.
C7_FillDeliveryOrder ==
    /\ CurrentCallback = "strategy.on_fill_event"
          => /\ last.op = "apply_fill"
             /\ last.fill = engine.pub.fill
             /\ obs.fills_applied = obs.fills_published
    /\ Publishing("EquityUpdateEvent")
          => /\ last.op = "apply_fill"
             /\ last.fill = engine.fill
             /\ obs.fills_applied = obs.fills_published
             /\ strategy.fills_received # <<>>
             /\ strategy.fills_received[Len(strategy.fills_received)] = engine.fill.order_id
             /\ Len(strategy.fills_received) = obs.fills_published
             /\ engine.pub.equity = TotalEquity(portfolio)
             /\ engine.pub.timestamp = engine.fill.timestamp

\* The EquityUpdateEvent of a fill that closed a position is being delivered.
C7_Witness ==
    /\ Publishing("EquityUpdateEvent")
    /\ Len(portfolio.trades) >= 1
    /\ Len(strategy.fills_received) >= 2

\* C8: with a risk manager, once the price update of a step has been delivered
\* (the strategy is about to be invoked), peak_equity is set and is at least
\* the portfolio's total equity.
C8_PeakCoversEquityAfterPriceUpdate ==
    (risk # Nothing /\ engine.pc = "on_event")
        => /\ risk.peak_equity # RNone
           /\ ~RLess(risk.peak_equity, TotalEquity(portfolio))

\* The next step of the order loop rejects the order at the head of the list.
RejectsNext ==
    /\ engine.pc = "orders"
    /\ engine.orders # <<>>
    /\ risk # Nothing
    /\ ValidateOrder(risk, portfolio, Head(engine.orders)).result = "reject"

ReferencePrice(fill) == fill.price - fill.slippage

\* The send_order call of the order loop succeeds with the given reference
\* price: its fill is published and nothing else has happened to the ledger.
SubmissionFillsAt(price) ==
    /\ engine'.pc = "dispatch"
    /\ engine'.pub.type = "FillEvent"
    /\ engine'.pub.fill = engine'.fill
    /\ engine'.fill.symbol = engine.order.symbol
    /\ engine'.fill.side = engine.order.side
    /\ engine'.fill.quantity = engine.order.quantity
    /\ ReferencePrice(engine'.fill) = price
    /\ obs'.fills_published = obs.fills_published + 1
    /\ portfolio' = portfolio

\* The send_order call fails: the run raises, no fill is published and the
\* portfolio and the strategy are as they were.
SubmissionFails ==
    /\ engine'.pc = "raised"
    /\ engine'.error = "ValueError"
    /\ portfolio' = portfolio
    /\ strategy' = strategy
    /\ obs' = obs

\* The order is filled at the broker's cached price for its symbol, and the
\* submission fails when there is none.
SubmissionAtCachedPrice ==
    IF broker.last_prices[engine.order.symbol] # None
    THEN SubmissionFillsAt(broker.last_prices[engine.order.symbol])
    ELSE SubmissionFails

ReturnedFinalized == engine.pc = "done" /\ engine.phase = "closing"

OpenAtExhaustion == {s \in Symbols : obs.open_at_exhaustion[s] # 0}

\* C11: with finalize_trades set, _close_all_positions does not fail, and when
\* run returns it has submitted exactly one MARKET order for each symbol whose
\* position was nonzero when the stream was exhausted, of the opposite side
\* and of quantity |position.quantity|, and every position has quantity 0.
C11_FinalizationClosesEveryPosition ==
    /\ engine.phase = "closing" => engine.pc # "raised"
    /\ ReturnedFinalized
          => /\ Len(obs.closing_orders) = Cardinality(OpenAtExhaustion)
             /\ \A s \in OpenAtExhaustion :
                   \E i \in 1..Len(obs.closing_orders) :
                      obs.closing_orders[i] =
                         Order(s,
                               IF obs.open_at_exhaustion[s] > 0 THEN SELL ELSE BUY,
                               Abs(obs.open_at_exhaustion[s]), MARKET, None, None)
             /\ \A s \in Symbols : portfolio.positions[s].quantity = 0

\* A finalized run that closed a long and a short position.
C11_Witness ==
    /\ ReturnedFinalized
    /\ \E s, t \in Symbols :
          obs.open_at_exhaustion[s] > 0 /\ obs.open_at_exhaustion[t] < 0

\* run() has ended: it returned, or an exception left it.
Terminated == engine.pc \in {"done", "raised"}

\* run() has left the for loop over the stream.
PastTheLoop == engine.phase = "closing" \/ engine.pc = "done"

\* The observations 1..n of the source, in source order.
FirstObservations(n) == [i \in 1..n |-> i]

\* The callbacks a publish call in progress has still to invoke.
CallbacksLeft ==
    IF engine.pc = "dispatch"
    THEN Len(Callbacks(buses.engine_bus, engine.pub)) + 1 - engine.k
    ELSE 0

\* Where run() is inside one iteration of the for loop over the stream.
Stage ==
    IF engine.phase = "closing" THEN 0
    ELSE CASE engine.pc = "dispatch" /\ engine.ret = "on_event" -> 5
           [] engine.pc = "on_event" -> 4
           [] engine.pc = "get_orders" -> 3
           [] engine.pc = "fetch" -> 1
           [] OTHER -> 2

\* Where run() is inside one iteration of a loop over orders or positions.
SubStage ==
    CASE engine.pc \in {"send", "send_closing"} -> 5
      [] engine.pc = "dispatch" /\ engine.ret = "publish_equity" -> 4
      [] engine.pc = "publish_equity" -> 3
      [] engine.pc = "dispatch" /\ engine.ret \in {"orders", "closing"} -> 2
      [] engine.pc \in {"orders", "closing"} -> 1
      [] OTHER -> 0

\* The items the loop over orders, or over positions, has still to visit.
ItemsLeft == IF engine.phase = "closing" THEN Len(engine.close_items) ELSE Len(engine.orders)

\* A measure of the work run() has left, ordered lexicographically: the
\* phase, the observations the source may still yield, the stage of the
\* iteration, the items left, the stage of the item, the callbacks left.
WorkLeft ==
    IF Terminated THEN 0
    ELSE 1 + CallbacksLeft
           + 4 * (SubStage
           + 6 * (ItemsLeft
           + (MaxOrders + Cardinality(Symbols) + 1) * (Stage
           + 6 * ((MaxEvents - engine.nevents)
           + (MaxEvents + 1) * (IF engine.phase = "run" THEN 1 ELSE 0)))))

\* run() is at a statement it can execute.
CanStep ==
    \/ engine.pc \in {"fetch", "on_event", "get_orders", "orders",
                       "publish_equity", "closing"}
    \/ engine.pc \in {"send", "send_closing"} /\ clock <= MaxTime
    \/ engine.pc = "dispatch"
          /\ CurrentCallback \in {"none", "portfolio.on_price_update", "portfolio.on_fill",
                                   "strategy.on_fill_event"}
                                  \cup (IF risk # Nothing
                                        THEN {"risk_manager.on_equity_update"} ELSE {})

\* C12: every run over a finite source ends: each step of run() lowers the
\* work left, which is never negative, and run() only stops when it has
\* ended.  The observations handed to strategy.on_event are at every moment
\* the first ones of the source, in source order and each once, and all of
\* them once the loop is left; after the source is exhausted the loop is
\* not entered again.
C12_RunTerminatesEachObservationOnce ==
    /\ [](/\ WorkLeft >= 0
          /\ Terminated \/ CanStep
          /\ obs.delivered = FirstObservations(Len(obs.delivered))
          /\ Len(obs.delivered) \in {engine.nevents - 1, engine.nevents}
          /\ PastTheLoop => Len(obs.delivered) = engine.nevents)
    /\ [][/\ WorkLeft' < WorkLeft
          /\ PastTheLoop => PastTheLoop' /\ engine'.nevents = engine.nevents]_vars

\* A run that returned after its source yielded two observations.
C12_Witness ==
    /\ engine.pc = "done"
    /\ engine.nevents = 2
    /\ Len(obs.delivered) = 2


(***************************************************************************)
(* Properties of the EventBus.                                             *)
(***************************************************************************)
\* The callbacks subscribed so far under a key, in the order of the calls.
RECURSIVE SubscribedFor(_, _)
SubscribedFor(subscriptions, key) ==
    IF subscriptions = <<>> THEN <<>>
    ELSE (IF Head(subscriptions).key = key THEN <<Head(subscriptions).callback>>
          ELSE <<>>) \o SubscribedFor(Tail(subscriptions), key)

\* C13: a publish of a domain event that has returned invoked exactly the
\* handlers subscribed for type(event), each once per subscription and in
\* the order they were subscribed, and no handler subscribed for another key.
C13_PublishInvokesHandlersOfTypeInOrder ==
    (last.op = "publish" /\ IsDomainEvent(last.event))
        => last.invoked = SubscribedFor(obs.subscriptions, last.event.type)

\* A FillEvent publish that invoked two handlers while other handlers were
\* subscribed for DomainEvent or EquityUpdateEvent.
C13_Witness ==
    /\ last.op = "publish"
    /\ last.event.type = "FillEvent"
    /\ Len(last.invoked) = 2
    /\ last.invoked[1] # last.invoked[2]
    /\ \E i \in 1..Len(obs.subscriptions) :
          obs.subscriptions[i].key \in {"DomainEvent", "EquityUpdateEvent"}

\* The legacy keys subscribed so far, each once, in the order they first
\* appeared.
RECURSIVE LegacyKeysSubscribed(_, _)
LegacyKeysSubscribed(subscriptions, seen) ==
    IF subscriptions = <<>> THEN <<>>
    ELSE IF Head(subscriptions).key \in LegacyKeys \ seen
    THEN <<Head(subscriptions).key>>
         \o LegacyKeysSubscribed(Tail(subscriptions), seen \cup {Head(subscriptions).key})
    ELSE LegacyKeysSubscribed(Tail(subscriptions), seen)

\* The callbacks subscribed under legacy keys, key by key.
RECURSIVE SubscribedForKeys(_, _)
SubscribedForKeys(subscriptions, keys) ==
    IF keys = <<>> THEN <<>>
    ELSE SubscribedFor(subscriptions, Head(keys))
         \o SubscribedForKeys(subscriptions, Tail(keys))

TablesUnchangedSince(before) ==
    /\ buses.engine_bus.subscribers = before.subscribers
    /\ buses.engine_bus.domain_subscribers = before.domain_subscribers

NonDomainPublish == last.op = "publish" /\ ~IsDomainEvent(last.event)

NonDomainSubscribe == last.op = "subscribe" /\ last.key \notin DomainEventKeys

\* C14 as stated: a publish of an object that is not a domain event, and a
\* subscribe with a key that is not a domain-event class, fail with a type
\* error, invoke no handler and leave the subscriber tables unchanged.
C14_TypeErrorOnNonDomainArgument ==
    (NonDomainPublish \/ NonDomainSubscribe)
        => /\ last.raised
           /\ last.invoked = <<>>
           /\ TablesUnchangedSince(last.before)

\* C14 as the code has it: neither call fails.  A publish of an object that
\* is not a domain event appends it to event_queue and invokes the handlers
\* of the legacy table, key by key in the order the keys were first
\* subscribed and in subscription order within a key, and no handler of the
\* domain-event table; a subscribe with a key that is not a domain-event
\* class appends the handler to the legacy table's list for that key.  The
\* domain-event table is unchanged by both.
C14_NonDomainArgumentTakesLegacyPath ==
    /\ NonDomainPublish
          => /\ ~last.raised
             /\ last.invoked =
                   SubscribedForKeys(obs.subscriptions,
                                     LegacyKeysSubscribed(obs.subscriptions, {}))
             /\ TablesUnchangedSince(last.before)
             /\ Len(buses.engine_bus.event_queue) > Len(last.before.event_queue)
             /\ buses.engine_bus.event_queue[Len(last.before.event_queue) + 1]
                   = last.event
    /\ NonDomainSubscribe
          => /\ ~last.raised
             /\ buses.engine_bus.subscribers =
                   [last.before.subscribers EXCEPT ![last.key] = Append(@, last.callback)]
             /\ buses.engine_bus.domain_subscribers = last.before.domain_subscribers

\* A market-data publish that invoked handlers of two legacy keys.
C14_Witness ==
    /\ NonDomainPublish
    /\ Len(last.invoked) >= 2
    /\ Len(buses.engine_bus.keys) = 2

\* C15: a publish call in progress below the innermost one is suspended
\* inside one of its handlers; a publish that has returned invoked all of
\* its handlers before it returned, so every publish entered has either
\* returned or is on the call stack; and event_queue never holds a domain
\* event.
C15_DeliveryIsSynchronousDepthFirst ==
    /\ \A i \in 1..(Len(engine.stack) - 1) : engine.stack[i].running
    /\ obs.publishes = Len(engine.stack) + obs.returns
    /\ last.op = "publish"
          => Len(last.invoked) = Len(Targets(buses.engine_bus, last.event))
    /\ \A i \in 1..Len(buses.engine_bus.event_queue) :
          ~IsDomainEvent(buses.engine_bus.event_queue[i])

\* A handler of a domain event B runs, B having been published by the first
\* of two handlers of a domain event A.
C15_Witness ==
    /\ Len(engine.stack) = 2
    /\ engine.stack[2].running
    /\ IsDomainEvent(engine.stack[1].event)
    /\ IsDomainEvent(engine.stack[2].event)
    /\ engine.stack[1].k = 1
    /\ Len(Targets(buses.engine_bus, engine.stack[1].event)) = 2


(***************************************************************************)
(* Properties of the Strategy's pending orders.                            *)
(***************************************************************************)
\* C16: get_orders returns the pending orders in creation order and leaves
\* the pending list empty; the orders returned by all get_orders calls so
\* far, followed by the pending ones, are the orders created so far, in
\* creation order (so each created order is returned by exactly one call);
\* and the orders the engine's loop has submitted and has still to visit are
\* the orders returned (so each is submitted at most once).
C16_GetOrdersDrainsPendingOrders ==
    /\ last.op = "get_orders"
          => /\ last.returned = last.pending_before
             /\ strategy.pending_orders = <<>>
    /\ obs.returned \o strategy.pending_orders = obs.created
    /\ obs.submitted \o engine.orders = obs.returned

\* Two get_orders calls have each returned one order, the two orders equal,
\* and the loop has submitted the first of them.
C16_Witness ==
    /\ last.op = "get_orders"
    /\ Len(last.returned) = 1
    /\ Len(obs.returned) = 2
    /\ obs.returned[1] = obs.returned[2]
    /\ Len(obs.submitted) = 1


(***************************************************************************)
(* Properties of the matching broker.                                      *)
(***************************************************************************)
\* The step is a call of new_order.
NewOrderCalled == obs'.new_orders = obs.new_orders + 1

\* The step is a call of next(current_bar), hence of process_orders.
ProcessOrdersCalled == clock' = clock + 1

\* C17: new_order with quantity 0 fails and leaves the open orders, the
\* trades and the positions as they were; with a nonzero quantity it does
\* not fail, the order's side is BUY for a positive and SELL for a negative
\* quantity, and the order is appended at the end of the open orders, the
\* earlier ones staying in place.
C17_NewOrderRejectsZeroAndDerivesSide ==
    [][NewOrderCalled =>
          IF last'.quantity = 0
          THEN /\ last'.raised
               /\ broker'.orders = broker.orders
               /\ broker'.trades = broker.trades
               /\ broker'.positions = broker.positions
               /\ broker'.pos_keys = broker.pos_keys
          ELSE /\ ~last'.raised
               /\ last'.order.symbol = last'.symbol
               /\ last'.order.side = IF last'.quantity > 0 THEN BUY ELSE SELL
               /\ broker'.orders = Append(broker.orders, last'.order)
               /\ broker'.trades = broker.trades
               /\ broker'.positions = broker.positions]_vars

\* A zero-quantity new_order has failed while an order was open, after a
\* negative quantity had been accepted as a SELL order.
C17_Witness ==
    /\ last.op = "new_order"
    /\ last.quantity = 0
    /\ last.raised
    /\ Len(broker.orders) = 1
    /\ broker.orders[1].side = SELL

\* C18: every order among the broker's open orders has a strictly positive
\* quantity, its magnitude, the direction being carried by its side alone;
\* also when it was created from a negative signed quantity.
C18_OpenOrdersHavePositiveQuantity ==
    \A i \in 1..Len(broker.orders) : broker.orders[i].quantity > 0

\* The fill condition of the order is met by its symbol's bar.
ConditionMet(order, current_bar) ==
    /\ ~NoQuote(order, current_bar)
    /\ MatchPrice(order, current_bar[order.symbol]) # None

MetOrders(orders, current_bar) ==
    LET Test(order) == ConditionMet(order, current_bar)
    IN  SelectSeq(orders, Test)

UnmetOrders(orders, current_bar) ==
    LET Test(order) == ~ConditionMet(order, current_bar)
    IN  SelectSeq(orders, Test)

\* C19: a call of process_orders leaves the open orders whose fill condition
\* the current bar does not meet in the open orders, unchanged and in their
\* order, removes each order whose condition is met and appends exactly one
\* trade for it (its symbol, side and magnitude, the bar's timestamp); and
\* at any moment the open orders and the trades together are as many as the
\* accepted orders, so that no order ever produces a second trade.
C19_OrderStaysOpenUntilItFillsOnce ==
    /\ [](Len(broker.orders) + Len(broker.trades) = obs.accepted)
    /\ [][ProcessOrdersCalled =>
             LET current_bar == last'.current_bar
                 met == MetOrders(broker.orders, current_bar)
                 new == SubSeq(broker'.trades, Len(broker.trades) + 1,
                               Len(broker'.trades))
             IN  /\ broker'.orders = UnmetOrders(broker.orders, current_bar)
                 /\ SubSeq(broker'.trades, 1, Len(broker.trades)) = broker.trades
                 /\ Len(new) = Len(met)
                 /\ \A k \in 1..Len(met) :
                       /\ new[k].symbol = met[k].symbol
                       /\ new[k].side = met[k].side
                       /\ new[k].quantity = Abs(met[k].quantity)
                       /\ new[k].timestamp = current_bar[met[k].symbol].timestamp]_vars

\* The only accepted order, a limit order, was logged as not filled by the
\* first call of process_orders and has produced its trade in the second.
C19_Witness ==
    /\ last.op = "process_orders"
    /\ clock = 2
    /\ obs.accepted = 1
    /\ obs.not_filled = 1
    /\ broker.orders = <<>>
    /\ Len(broker.trades) = 1
    /\ broker.trades[1].timestamp = 2

\* The current MultiBar has no bar for the symbol, or a bar with neither
\* open nor close.
DataGap(current_bar, symbol) ==
    \/ current_bar[symbol] = Nothing
    \/ /\ current_bar[symbol].open = None
       /\ current_bar[symbol].close = None

OrdersOf(orders, symbol) ==
    LET Test(order) == order.symbol = symbol
    IN  SelectSeq(orders, Test)

\* The orders of the symbol that its bar does not match.
UnmatchedOrdersOf(orders, symbol, bar) ==
    LET Test(order) == order.symbol = symbol /\ MatchPrice(order, bar) = None
    IN  SelectSeq(orders, Test)

\* C20: process_orders does not raise; the orders of a symbol that has no
\* bar in the current MultiBar, or a bar with neither open nor close, stay
\* open as they were, no trade is appended for the symbol and its position
\* is unchanged; the orders of every other symbol are still processed in the
\* same call (those their bar matches are removed, and as many trades are
\* appended as orders are removed).
C20_DataGapSkipsOrderAndContinues ==
    [][ProcessOrdersCalled =>
          LET current_bar == last'.current_bar
              new == SubSeq(broker'.trades, Len(broker.trades) + 1,
                            Len(broker'.trades))
          IN  /\ ~last'.raised
              /\ Len(new) = Len(broker.orders) - Len(broker'.orders)
              /\ \A s \in Symbols :
                    IF DataGap(current_bar, s)
                    THEN /\ OrdersOf(broker'.orders, s) = OrdersOf(broker.orders, s)
                         /\ \A k \in 1..Len(new) : new[k].symbol # s
                         /\ broker'.positions[s] = broker.positions[s]
                         /\ s \in Range(broker'.pos_keys) <=> s \in Range(broker.pos_keys)
                    ELSE OrdersOf(broker'.orders, s) =
                            UnmatchedOrdersOf(broker.orders, s, current_bar[s])]_vars

\* One call of process_orders has skipped the order of a symbol whose bar
\* has neither open nor close, which is still open, and has filled the other
\* accepted order.
C20_Witness ==
    /\ last.op = "process_orders"
    /\ clock = 1
    /\ obs.accepted = 2
    /\ obs.skipped = 1
    /\ Len(broker.orders) = 1
    /\ last.current_bar[broker.orders[1].symbol] # Nothing
    /\ DataGap(last.current_bar, broker.orders[1].symbol)
    /\ Len(broker.trades) = 1
    /\ broker.trades[1].symbol # broker.orders[1].symbol


(***************************************************************************)
(* Properties of the matching broker's fill rules.                         *)
(***************************************************************************)
\* The bar quotes a price: it has an open or a close.
Quoted(bar) == bar # Nothing /\ (bar.open # None \/ bar.close # None)

\* openPrice: the bar's open, or its close when the open is absent.
OpenPriceOf(bar) == IF bar.open = None THEN bar.close ELSE bar.open

\* The bar's high and low, an absent one replaced by openPrice.
HighOf(bar) == IF bar.high = None THEN OpenPriceOf(bar) ELSE bar.high

LowOf(bar) == IF bar.low = None THEN OpenPriceOf(bar) ELSE bar.low

\* The step is a call of process_orders that fills the only open order at
\* the price, with one trade.
FillsAt(price) ==
    /\ broker'.orders = <<>>
    /\ Len(broker'.trades) = Len(broker.trades) + 1
    /\ broker'.trades[Len(broker'.trades)].price = price

\* The step is a call of process_orders that leaves the only open order
\* open and appends no trade.
DoesNotFill ==
    /\ broker'.orders = broker.orders
    /\ broker'.trades = broker.trades

\* C21: with zero slippage, for every quoting bar and limit price, a LIMIT
\* BUY fills iff low <= limit_price, at min(openPrice, limit_price), and a
\* LIMIT SELL fills iff high >= limit_price, at max(openPrice, limit_price);
\* otherwise the order does not fill.
C21_LimitOrderFillRule ==
    [][(/\ ProcessOrdersCalled
        /\ Len(broker.orders) = 1
        /\ broker.orders[1].order_type = LIMIT
        /\ broker.slippage = 0
        /\ Quoted(last'.current_bar[broker.orders[1].symbol])) =>
          LET order == broker.orders[1]
              bar == last'.current_bar[order.symbol]
          IN  IF order.side = BUY
              THEN IF LowOf(bar) <= order.limit_price
                   THEN FillsAt(Min(OpenPriceOf(bar), order.limit_price))
                   ELSE DoesNotFill
              ELSE IF HighOf(bar) >= order.limit_price
                   THEN FillsAt(Max(OpenPriceOf(bar), order.limit_price))
                   ELSE DoesNotFill]_vars

\* A LIMIT BUY has been filled at its limit price by a bar whose low equals
\* the limit price and whose open lies above it.
C21_Witness ==
    /\ last.op = "process_orders"
    /\ broker.orders = <<>>
    /\ Len(broker.trades) = 1
    /\ broker.trades[1].side = BUY
    /\ broker.trades[1].price = 11
    /\ last.current_bar["AAPL"].low = 11
    /\ last.current_bar["AAPL"].open = 12
    /\ obs.not_filled = 0
    /\ clock = 1

\* C22: with zero slippage, for every quoting bar and stop price, a STOP BUY
\* fills iff high >= stop_price, at max(openPrice, stop_price), and a STOP
\* SELL fills iff low <= stop_price, at min(openPrice, stop_price);
\* otherwise the order does not fill.
C22_StopOrderFillRule ==
    [][(/\ ProcessOrdersCalled
        /\ Len(broker.orders) = 1
        /\ broker.orders[1].order_type = STOP
        /\ broker.slippage = 0
        /\ Quoted(last'.current_bar[broker.orders[1].symbol])) =>
          LET order == broker.orders[1]
              bar == last'.current_bar[order.symbol]
          IN  IF order.side = BUY
              THEN IF HighOf(bar) >= order.stop_price
                   THEN FillsAt(Max(OpenPriceOf(bar), order.stop_price))
                   ELSE DoesNotFill
              ELSE IF LowOf(bar) <= order.stop_price
                   THEN FillsAt(Min(OpenPriceOf(bar), order.stop_price))
                   ELSE DoesNotFill]_vars

\* A sell order that a first bar did not fill (so not a market order) has
\* been filled at the open by a second bar whose low equals the stop price
\* and whose open and high lie below it (so not as a limit order): a STOP
\* SELL filled at min(openPrice, stop_price) on equality.
C22_Witness ==
    /\ last.op = "process_orders"
    /\ clock = 2
    /\ obs.not_filled = 1
    /\ broker.orders = <<>>
    /\ Len(broker.trades) = 1
    /\ broker.trades[1].side = SELL
    /\ broker.trades[1].price = 10
    /\ last.current_bar["AAPL"].low = 11
    /\ last.current_bar["AAPL"].high = 10
    /\ last.current_bar["AAPL"].open = 10

\* The MultiBar with every absent high and low of a quoting bar replaced by
\* the bar's openPrice.
WithExtremes(current_bar) ==
    [s \in Symbols |->
        IF Quoted(current_bar[s])
        THEN [current_bar[s] EXCEPT !.high = HighOf(current_bar[s]),
                                    !.low = LowOf(current_bar[s])]
        ELSE current_bar[s]]

\* C23: a MARKET order stays open, without a trade, through the calls of
\* process_orders whose MultiBar has no bar for its symbol or a bar with
\* neither open nor close, and fills in the first call whose bar has an open
\* or a close, at openPrice (the open, or the close when the open is
\* absent); and for an order of any type a bar with an absent high or low is
\* matched as the same bar with openPrice in its place.
C23_MarketOrderFillsAtOpenPrice ==
    [][ProcessOrdersCalled =>
          /\ (/\ Len(broker.orders) = 1
              /\ broker.orders[1].order_type = MARKET
              /\ broker.slippage = 0) =>
                 LET bar == last'.current_bar[broker.orders[1].symbol]
                 IN  IF Quoted(bar) THEN FillsAt(OpenPriceOf(bar)) ELSE DoesNotFill
          /\ broker' = ProcessOrders(broker, broker.orders,
                                     WithExtremes(last'.current_bar))]_vars

\* A buy order that a first call skipped has been filled by the second at
\* the bar's close, the open being absent, by a bar on which neither a limit
\* nor a stop buy order at 11 fills (low 12, high 10): a MARKET order filled
\* at openPrice by the first bar that quotes a price.
C23_Witness ==
    /\ last.op = "process_orders"
    /\ clock = 2
    /\ obs.skipped = 1
    /\ broker.orders = <<>>
    /\ Len(broker.trades) = 1
    /\ broker.trades[1].side = BUY
    /\ broker.trades[1].price = 11
    /\ last.current_bar["AAPL"].open = None
    /\ last.current_bar["AAPL"].close = 11
    /\ last.current_bar["AAPL"].low = 12
    /\ last.current_bar["AAPL"].high = 10


(***************************************************************************)
(* Properties of the matching broker's fills.                              *)
(***************************************************************************)
\* The trades appended by the step.
NewTrades ==
    SubSeq(broker'.trades, Len(broker.trades) + 1, Len(broker'.trades))

\* C24: every trade a call of process_orders appends records as price the
\* matched price plus the broker's per-unit slippage for a BUY and minus it
\* for a SELL, as slippage the order's magnitude times the per-unit
\* slippage, and as commission the broker's per-order commission, whatever
\* the quantity.
C24_FillRecordsSlippageAndCommission ==
    [][ProcessOrdersCalled =>
          LET current_bar == last'.current_bar
              met == MetOrders(broker.orders, current_bar)
              new == NewTrades
          IN  /\ Len(new) = Len(met)
              /\ \A k \in 1..Len(met) :
                    LET matched == MatchPrice(met[k], current_bar[met[k].symbol])
                    IN  new[k] =
                          [new[k] EXCEPT
                             !.price = IF met[k].side = BUY
                                       THEN matched + broker.slippage
                                       ELSE matched - broker.slippage,
                             !.quantity = Abs(met[k].quantity),
                             !.slippage = Abs(met[k].quantity) * broker.slippage,
                             !.commission = broker.commission]]_vars

\* A broker with slippage 1 and commission 1 has filled a SELL of 2 units
\* and a BUY of 1 unit in one call: the sell at 10 - 1 with slippage cost 2,
\* the buy at 10 + 1 with slippage cost 1, each with commission 1.
C24_Witness ==
    /\ last.op = "process_orders"
    /\ broker.slippage = 1
    /\ broker.commission = 1
    /\ Len(broker.trades) = 2
    /\ broker.trades[1].timestamp = broker.trades[2].timestamp
    /\ broker.trades[1] = Trade(clock, broker.trades[1].symbol, SELL, 2, 9, 2, 1,
                                broker.trades[1].pnl)
    /\ broker.trades[2] = Trade(clock, broker.trades[2].symbol, BUY, 1, 11, 1, 1,
                                broker.trades[2].pnl)

\* C25: when a call of process_orders fills one order, against a position
\* of the opposite direction and of larger magnitude than the order, the
\* position keeps its average price and its direction, its magnitude
\* decreases by the order's magnitude, and the trade's pnl is
\* (fill price - average price) * magnitude for a long position, (average
\* price - fill price) * magnitude for a short one, minus the commission.
C25_PartialCloseKeepsAveragePrice ==
    [][(/\ ProcessOrdersCalled
        /\ Len(MetOrders(broker.orders, last'.current_bar)) = 1) =>
          LET order == MetOrders(broker.orders, last'.current_bar)[1]
              quantity == Abs(order.quantity)
              before == broker.positions[order.symbol]
              after == broker'.positions[order.symbol]
              trade == broker'.trades[Len(broker'.trades)]
          IN  /\ (order.side = SELL /\ before.quantity > quantity) =>
                    /\ after.avg_price = before.avg_price
                    /\ after.quantity = before.quantity - quantity
                    /\ trade.pnl = RSub(RMul(RSub(R(trade.price), before.avg_price),
                                               R(quantity)),
                                          R(broker.commission))
              /\ (order.side = BUY /\ -before.quantity > quantity) =>
                    /\ after.avg_price = before.avg_price
                    /\ after.quantity = before.quantity + quantity
                    /\ trade.pnl = RSub(RMul(RSub(before.avg_price, R(trade.price)),
                                               R(quantity)),
                                          R(broker.commission))]_vars

\* A broker with commission 1 bought 2 units at 10 in its first call and
\* sold 1 of them at 12 in its second: the position is 1 unit at 10 and the
\* second trade's pnl is (12 - 10) * 1 - 1.
C25_Witness ==
    /\ last.op = "process_orders"
    /\ clock = 2
    /\ broker.slippage = 0
    /\ broker.commission = 1
    /\ Len(broker.trades) = 2
    /\ broker.trades[1] = Trade(1, "AAPL", BUY, 2, 10, 0, 1, R(-1))
    /\ broker.trades[2] = Trade(2, "AAPL", SELL, 1, 12, 0, 1, R(1))
    /\ broker.positions["AAPL"].quantity = 1
    /\ broker.positions["AAPL"].avg_price = R(10)


(***************************************************************************)
(* Properties of the RiskManager.                                          *)
(***************************************************************************)
\* The step is a call of validate_order.
ValidateOrderCalled == obs'.ops = obs.ops + 1 /\ last'.op = "validate_order"

\* The position the order would leave in its symbol: the portfolio's signed
\* quantity (0 when it has no position) moved by the order's quantity.
ProjectedQuantity(p, order) ==
    LET current == IF order.symbol \in Range(p.pos_keys)
                   THEN p.positions[order.symbol].quantity ELSE 0
    IN  IF order.side = BUY THEN current + order.quantity
        ELSE current - order.quantity

\* C26: with max_position_size configured, validate_order rejects every
\* order whose projected position exceeds the cap in magnitude, and an order
\* whose projected magnitude is at most the cap (equal to it included) is
\* rejected only by another limit: it is rejected iff the same manager
\* without the cap rejects it, and is accepted when no other limit is set.
C26_PositionSizeCap ==
    [][(ValidateOrderCalled /\ risk.max_position_size # None) =>
          LET order == last'.order
              over == Abs(ProjectedQuantity(portfolio, order)) > risk.max_position_size
              others == ValidateOrder([risk EXCEPT !.max_position_size = None],
                                      portfolio, order).result
          IN  /\ over => last'.result = "reject"
              /\ ~over => last'.result = others
              /\ (/\ ~over
                  /\ risk.max_portfolio_exposure = None
                  /\ risk.max_drawdown = RNone) => last'.result = "accept"]_vars

\* A manager with only the position cap, 2, has accepted an order that
\* brings a position of 1 to exactly 2.
C26_Witness ==
    /\ last.op = "validate_order"
    /\ last.result = "accept"
    /\ risk.max_position_size = 2
    /\ risk.max_portfolio_exposure = None
    /\ risk.max_drawdown = RNone
    /\ last.order.side = BUY
    /\ last.order.quantity = 1
    /\ portfolio.positions[last.order.symbol].quantity = 1

\* C27: every call of validate_order, whatever limits the manager has and
\* whatever its verdict, leaves peak_equity at the portfolio's total equity
\* when that equity exceeds the peak_equity tracked before the call.
C27_EveryValidationRaisesPeakEquity ==
    [][(/\ ValidateOrderCalled
        /\ risk.peak_equity # RNone
        /\ RLess(risk.peak_equity, TotalEquity(portfolio))) =>
          risk'.peak_equity = TotalEquity(portfolio)]_vars

\* C28, as stated: a call of validate_order changes neither the portfolio's
\* cash, nor its set of positions, nor a field of a position, nor its trades
\* or its equity curve.
C28_ValidationLeavesPortfolioUnchanged ==
    [][ValidateOrderCalled => portfolio' = portfolio]_vars

\* C28, as the code has it: a call of validate_order changes neither the
\* portfolio's cash, nor a field of a position it holds, nor its trades or
\* its equity curve, nor its total equity; when max_position_size is
\* configured and the portfolio has no position for the order's symbol, the
\* call stores a zero Position for that symbol, and this is the only change
\* to the set of positions.
C28_ValidationAddsAtMostAZeroPosition ==
    [][ValidateOrderCalled =>
          LET symbol == last'.order.symbol
              held == symbol \in Range(portfolio.pos_keys)
          IN  /\ portfolio'.cash = portfolio.cash
              /\ portfolio'.trades = portfolio.trades
              /\ portfolio'.equity_curve = portfolio.equity_curve
              /\ \A s \in Range(portfolio.pos_keys) :
                    portfolio'.positions[s] = portfolio.positions[s]
              /\ TotalEquity(portfolio') = TotalEquity(portfolio)
              /\ IF risk.max_position_size # None /\ ~held
                 THEN /\ portfolio'.pos_keys = Append(portfolio.pos_keys, symbol)
                      /\ portfolio'.positions[symbol] = Position(symbol)
                 ELSE portfolio'.pos_keys = portfolio.pos_keys]_vars

\* After a fill in one symbol, a validation of an order for the other
\* symbol has stored a zero Position for it next to the held position.
C28_Witness ==
    /\ last.op = "validate_order"
    /\ Len(portfolio.pos_keys) = 2
    /\ portfolio.pos_keys[2] = last.order.symbol
    /\ portfolio.positions[last.order.symbol] = Position(last.order.symbol)
    /\ portfolio.positions[portfolio.pos_keys[1]].quantity # 0
    /\ obs.ops = 2


(***************************************************************************)
(* Properties of the Portfolio's equity and cash.                          *)
(***************************************************************************)
\* Cash plus, over the positions, quantity times the latest price the
\* symbol was updated with.
MarkToMarket(p, prices) ==
    RAdd(R(p.cash),
         RSum([i \in 1..Len(p.pos_keys) |->
                 R(p.positions[p.pos_keys[i]].quantity * prices[p.pos_keys[i]])]))

\* C29: in every state in which each symbol the portfolio holds a non-zero
\* position in has had a price update, get_total_equity() is the cash plus
\* the sum over the positions of quantity times the symbol's latest updated
\* price; also after fills that close a position, or part of it, after it
\* was marked.
C29_TotalEquityIsMarkToMarket ==
    (\A s \in Range(portfolio.pos_keys) :
        portfolio.positions[s].quantity # 0 => obs.last_price[s] # None)
    => TotalEquity(portfolio) =
          MarkToMarket(portfolio,
                       [s \in Symbols |-> IF obs.last_price[s] = None THEN 0
                                           ELSE obs.last_price[s]])

\* C30: apply_fill has no negative-cash guard: every BUY fill on a flat or
\* long position, whether or not its cost exceeds the cash, is applied in
\* full: the position grows by the fill's whole quantity and the cash
\* decreases by quantity * price + commission, below zero if need be, and a
\* BUY fill on any position moves it by the fill's whole quantity.
C30_BuyBeyondCashIsAppliedInFull ==
    (last.op = "apply_fill" /\ last.fill.side = BUY) =>
        /\ portfolio.positions[last.fill.symbol].quantity =
              last.quantity_before + last.fill.quantity
        /\ last.quantity_before >= 0 =>
              portfolio.cash = last.cash_before
                               - (last.fill.quantity * last.fill.price
                                  + last.fill.commission)

\* A BUY of 2 units at 12 was applied to a portfolio whose cash, 20, was
\* less than the cost: the position grew by 2 and the cash is -4.
C30_Witness ==
    /\ last.op = "apply_fill"
    /\ last.fill.side = BUY
    /\ last.cash_before = 20
    /\ last.fill.quantity * last.fill.price = 24
    /\ portfolio.cash = -4
    /\ portfolio.positions[last.fill.symbol].quantity = last.quantity_before + 2


(***************************************************************************)
(* Properties of the matching broker's trade lists.                        *)
(***************************************************************************)
\* What a trade shows of the order it fills: symbol, side and magnitude.
Shown(records) ==
    [k \in 1..Len(records) |->
        <<records[k].symbol, records[k].side, Abs(records[k].quantity)>>]

\* C31: the open orders are kept in creation order, and the trades a call
\* of process_orders appends come after all earlier trades, which stay as
\* they were, and show, in creation order, the orders the call fills.
C31_TradesFollowCreationOrder ==
    /\ [][NewOrderCalled /\ ~last'.raised =>
             SubSeq(broker'.orders, 1, Len(broker.orders)) = broker.orders]_vars
    /\ [][ProcessOrdersCalled =>
             /\ Len(broker'.trades) >= Len(broker.trades)
             /\ SubSeq(broker'.trades, 1, Len(broker.trades)) = broker.trades
             /\ Shown(NewTrades) =
                   Shown(MetOrders(broker.orders, last'.current_bar))]_vars

\* One call of process_orders has filled both accepted orders, which differ
\* in symbol: its two trades carry the call's timestamp.
C31_Witness ==
    /\ last.op = "process_orders"
    /\ obs.accepted = 2
    /\ broker.orders = <<>>
    /\ Len(broker.trades) = 2
    /\ broker.trades[1].timestamp = clock
    /\ broker.trades[2].timestamp = clock
    /\ broker.trades[1].symbol # broker.trades[2].symbol

\* The trades with a non-zero pnl, in their order.
TradesWithPnl(trades) ==
    LET Test(trade) == trade.pnl # R(0)
    IN  SelectSeq(trades, Test)

\* C32, as stated: closed_trades is the subsequence of the trades whose pnl
\* (realized PnL minus commission) is non-zero, in the same order; and with
\* a non-zero commission every fill is recorded in closed_trades.
C32_ClosedTradesAreTradesWithPnl ==
    /\ broker.closed_trades = TradesWithPnl(broker.trades)
    /\ broker.commission # 0 => broker.closed_trades = broker.trades

\* C32, as the code has it: closed_trades is the subsequence of the trades
\* whose pnl (realized PnL minus commission) is non-zero, in the same order;
\* with a non-zero commission a call that fills one order on a flat position
\* or on a position of the order's direction records the trade in
\* closed_trades, and the trades missing from closed_trades are those whose
\* realized PnL equals the commission.
C32_ClosedTradesAreTradesWithPnlAfterCommission ==
    /\ [](/\ broker.closed_trades = TradesWithPnl(broker.trades)
          /\ \A k \in 1..Len(broker.trades) :
                broker.trades[k] \in Range(broker.closed_trades)
                \/ RAdd(broker.trades[k].pnl, R(broker.commission))
                      = R(broker.commission))
    /\ [][(/\ ProcessOrdersCalled
           /\ broker.commission # 0
           /\ Len(MetOrders(broker.orders, last'.current_bar)) = 1) =>
             LET order == MetOrders(broker.orders, last'.current_bar)[1]
                 held == broker.positions[order.symbol].quantity
             IN  ((order.side = BUY /\ held >= 0) \/ (order.side = SELL /\ held <= 0))
                 => broker'.closed_trades =
                       Append(broker.closed_trades,
                              broker'.trades[Len(broker'.trades)])]_vars

\* A broker with commission 1 and no slippage bought 1 unit at 10 and sold
\* it at 11: the opening trade, with pnl -1, is in closed_trades and the
\* closing trade, whose realized PnL of 1 the commission cancels, is not.
C32_Witness ==
    /\ broker.commission = 1
    /\ Len(broker.trades) = 2
    /\ broker.trades[1].side = BUY
    /\ broker.trades[1].pnl = R(-1)
    /\ broker.trades[2].side = SELL
    /\ broker.trades[2].price = 11
    /\ broker.trades[2].pnl = R(0)
    /\ broker.closed_trades = <<broker.trades[1]>>


(***************************************************************************)
(* Properties of Portfolio.apply_fill.                                     *)
(***************************************************************************)
\* The step is a call of apply_fill in a ledger behaviour.
ApplyFillCalled == obs'.ops = obs.ops + 1 /\ last'.op = "apply_fill"

\* C33: a BUY fill applied to a flat or long position sets avg_price to
\* (avg_price * old quantity + fill quantity * fill price + commission) /
\* (old quantity + fill quantity), increases the quantity by the fill's
\* quantity, decreases the cash by fill quantity * fill price + commission,
\* and appends no Trade.
C33_BuyOnFlatOrLongPosition ==
    [][(/\ ApplyFillCalled
        /\ last'.fill.side = BUY
        /\ portfolio.positions[last'.fill.symbol].quantity >= 0) =>
          LET fill == last'.fill
              old == portfolio.positions[fill.symbol]
              new == portfolio'.positions[fill.symbol]
              paid == fill.quantity * fill.price + fill.commission
          IN  /\ new.quantity = old.quantity + fill.quantity
              /\ new.avg_price =
                    RDiv(RAdd(RMul(old.avg_price, R(old.quantity)), R(paid)),
                         R(old.quantity + fill.quantity))
              /\ portfolio'.cash = portfolio.cash - paid
              /\ portfolio'.trades = portfolio.trades
              /\ fill.symbol \in Range(portfolio'.pos_keys)]_vars

\* A long position of 1 unit with average price 11 (bought at 10 with
\* commission 1) has received a BUY of 1 unit at 12 with commission 1: it
\* is 2 units at (11 + 12 + 1) / 2 = 12 and no Trade was appended.
C33_Witness ==
    /\ last.op = "apply_fill"
    /\ last.fill.side = BUY
    /\ last.fill.quantity = 1
    /\ last.fill.price = 12
    /\ last.fill.commission = 1
    /\ last.quantity_before = 1
    /\ last.cash_before = InitialCash - 11
    /\ portfolio.cash = InitialCash - 24
    /\ portfolio.positions[last.fill.symbol].quantity = 2
    /\ portfolio.positions[last.fill.symbol].avg_price = R(12)
    /\ portfolio.trades = <<>>


(***************************************************************************)
(* Properties of BrokerSim.send_order.                                     *)
(***************************************************************************)
\* C34: the order ids of the fills one BrokerSim instance returns are SIM_n for
\* strictly increasing n (hence pairwise distinct), whatever calls succeeded
\* or raised in between, and none exceeds the instance's counter.
C34_FillIdsStrictlyIncrease ==
    /\ \A i, j \in 1..Len(obs.issued) : i < j => obs.issued[i] < obs.issued[j]
    /\ \A i \in 1..Len(obs.issued) : obs.issued[i] \in 1..broker.order_id_counter

\* Calls 1 and 3 raised, calls 2 and 4 returned the fills SIM_2 and SIM_4, the
\* latter priced from the cache.
C34_Witness ==
    /\ obs.issued = <<2, 4>>
    /\ obs.failed = 2
    /\ last.op = "send_order" /\ last.current_price = None /\ ~last.raised


(***************************************************************************)
(* Conservation of orders in the matching broker.                          *)
(***************************************************************************)
\* C35: in every reachable state of the matching broker, the number of
\* recorded trades plus the number of open orders equals the number of
\* new_order calls that were accepted: no order is lost and none fills twice.
C35_TradesPlusOpenOrdersAreAcceptedOrders ==
    obs.accepted = Len(broker.trades) + Len(broker.orders)

\* Two orders were accepted; process_orders has filled one of them and left
\* the other open.
C35_Witness ==
    /\ last.op = "process_orders"
    /\ obs.accepted = 2
    /\ Len(broker.trades) = 1
    /\ Len(broker.orders) = 1


\* The cash a fill moves at its price: paid by a BUY, received by a SELL.
SignedNotional(fill) ==
    IF fill.side = BUY THEN 0 - fill.quantity * fill.price
    ELSE fill.quantity * fill.price

\* C36: every apply_fill, whatever branch it takes (open, add, partial or full
\* close, crossing through zero), changes cash by the signed notional of the
\* fill minus the fill's commission, charged once.
C36_CommissionChargedOncePerFill ==
    [][ApplyFillCalled =>
          portfolio'.cash = portfolio.cash + SignedNotional(last'.fill)
                              - last'.fill.commission]_vars


(***************************************************************************)
(* Limit orders and slippage.                                              *)
(***************************************************************************)
\* C37: whatever the broker's slippage, the trade a call of process_orders
\* records for a LIMIT BUY has a price at most the order's limit price, and
\* the trade recorded for a LIMIT SELL has a price at least the limit price.
C37_LimitFillRespectsLimitPrice ==
    [][ProcessOrdersCalled =>
          LET met == MetOrders(broker.orders, last'.current_bar)
              new == NewTrades
          IN  \A k \in 1..Len(met) :
                 (k <= Len(new) /\ met[k].order_type = LIMIT) =>
                    IF met[k].side = BUY
                    THEN new[k].price <= met[k].limit_price
                    ELSE new[k].price >= met[k].limit_price]_vars


(***************************************************************************)
(* Finalization and the broker's cached prices.                            *)
(***************************************************************************)
\* The reference price run() or _close_all_positions is about to pass to
\* send_order with the order engine.order, None when it passes none.
SubmittedReferencePrice ==
    IF engine.pc = "send" /\ engine.order.symbol = engine.event.symbol
    THEN engine.event.close_price
    ELSE None

\* C38: in an engine run (every position comes from fills of the engine's
\* BrokerSim) the broker holds a cached price for every symbol with a nonzero
\* position, so no send_order of the finalization raises; and a symbol's
\* cached price changes only when an order for that symbol is submitted with
\* a reference price, to that reference price.
C38_FinalizationFindsCachedPrice ==
    /\ [](\A s \in Symbols :
             portfolio.positions[s].quantity # 0 => broker.last_prices[s] # None)
    /\ [](engine.phase = "closing" => engine.error = "none")
    /\ [][\A s \in Symbols :
             IF /\ engine.pc \in {"send", "send_closing"}
                /\ engine.order.symbol = s
                /\ SubmittedReferencePrice # None
             THEN broker'.last_prices[s] = SubmittedReferencePrice
             ELSE broker'.last_prices[s] = broker.last_prices[s]]_vars

\* A finalized run has closed the positions of both symbols; the last closing
\* fill is priced from the cache.
C38_Witness ==
    /\ engine.pc = "done"
    /\ engine.phase = "closing"
    /\ Len(obs.closing_orders) = 2
    /\ engine.fill # Nothing
    /\ engine.fill.price = broker.last_prices[engine.fill.symbol] + broker.slippage


(***************************************************************************)
(* Properties of the risk manager's peak equity.                           *)
(***************************************************************************)
\* C39: once peak_equity is set, no call of validate_order,
\* on_equity_update or update_peak_equity (nor anything else) lowers or
\* unsets it, and it is at least every equity value an on_equity_update call
\* has carried so far.
C39_PeakEquityNeverDecreases ==
    /\ [](\A equity \in obs.equities :
             /\ risk.peak_equity # RNone
             /\ ~RLess(risk.peak_equity, R(equity)))
    /\ [][risk.peak_equity # RNone =>
             /\ risk'.peak_equity # RNone
             /\ ~RLess(risk'.peak_equity, risk.peak_equity)]_vars

\* Equity updates have carried 20 and then 15: the latest call has left the
\* peak at 20.
C39_Witness ==
    /\ last.op = "on_equity_update"
    /\ last.equity = RiskCash - 5
    /\ obs.equities = {RiskCash - 5, RiskCash}
    /\ risk.peak_equity = R(RiskCash)


\* C40: with max_drawdown configured, every call of validate_order returns
\* True or False, also when the portfolio's total equity (and with it the
\* peak) is zero or negative, and it returns False whenever the current
\* equity lies below the peak by more than max_drawdown times |peak|.
C40_DrawdownCheckReturnsAndRejects ==
    [][(ValidateOrderCalled /\ risk.max_drawdown # RNone) =>
          LET current_equity == TotalEquity(portfolio)
              peak == risk'.peak_equity
          IN  /\ last'.result \in {"accept", "reject"}
              /\ (/\ peak # RNone
                  /\ RLess(RMul(risk.max_drawdown, RAbs(peak)),
                           RSub(peak, current_equity)))
                    => last'.result = "reject"]_vars

=============================================================================
